---- MODULE Spec2Model ----
(***************************************************************************)
(* Model of the assignment consolidation tools (src/tools):                *)
(*   - assignment_utils.py : log_to_file, parse_assignment_date, ...       *)
(*   - get_assignments.py  : sort, get_all_assignments,                     *)
(*                           update_course_colors, main, embed_data_in_html *)
(* Text is modelled character by character: a Python str is a sequence of  *)
(* one-character strings, so that lower(), strip(), substring tests and     *)
(* the regular expressions of the code are computed and not assumed.        *)
(***************************************************************************)
EXTENDS Integers, Sequences, FiniteSets, TLC

VARIABLES
    course_colors_file,  \* content of COURSE_COLORS_FILE (data/course_colors.json)
    _error_messages,     \* assignment_utils._error_messages, the error collector
    logged,              \* lines appended to LOGFILE by the latest operation (a
                         \* call made on its own, or the current main())
    colors_run,          \* record of the latest update_course_colors call of SpecColors
    runs,                \* number of update_course_colors calls so far
    today,               \* the date datetime.now() falls on (proleptic ordinal)
    parse_call,          \* the latest parse_assignment_date call and its result
    pc,                  \* where main() is: "idle" between runs
    main_run,            \* the locals and the outcome of the latest main()
    sort_call,           \* the latest sort_assignments_by_date call on its own
    dedup_call,          \* the latest Done-tab merge of extract_all_assignments
    points_rows,         \* the records the extractors built, with their max_points
    index_html,          \* content of index.html, as a sequence of pieces of text
    embed_call,          \* the embed_data_in_html calls made on their own
    jupiter_call,        \* the latest get_jupiter_assignments call
    scrape               \* the scrape_class_assignments call under way

vars == <<course_colors_file, _error_messages, logged, colors_run, runs, today,
          parse_call, pc, main_run, sort_call, dedup_call, points_rows, index_html, embed_call,
                   jupiter_call, scrape>>

\* ------------------------------------------------------------------ bounds

\* update_course_colors calls in one behaviour
MaxRuns == 2

\* ------------------------------------------------------------ Python str

UpperCase == <<"A", "B", "C", "D", "E", "F", "G", "H", "I", "J", "K", "L", "M",
               "N", "O", "P", "Q", "R", "S", "T", "U", "V", "W", "X", "Y", "Z">>

LowerCase == <<"a", "b", "c", "d", "e", "f", "g", "h", "i", "j", "k", "l", "m",
               "n", "o", "p", "q", "r", "s", "t", "u", "v", "w", "x", "y", "z">>

Digits == <<"0", "1", "2", "3", "4", "5", "6", "7", "8", "9">>

IndexIn(seq, c) == CHOOSE i \in 1..Len(seq) : seq[i] = c

IsIn(seq, c) == \E i \in 1..Len(seq) : seq[i] = c

\* ord(c): the code point, which is what str comparison compares
ord(c) ==
    IF IsIn(UpperCase, c) THEN 64 + IndexIn(UpperCase, c)
    ELSE IF IsIn(LowerCase, c) THEN 96 + IndexIn(LowerCase, c)
    ELSE IF IsIn(Digits, c) THEN 47 + IndexIn(Digits, c)
    ELSE CASE c = " " -> 32
           [] c = "'" -> 39
           [] c = "," -> 44
           [] c = "-" -> 45
           [] c = "/" -> 47
           [] c = ":" -> 58
           [] OTHER -> 127

char_lower(c) == IF IsIn(UpperCase, c) THEN LowerCase[IndexIn(UpperCase, c)] ELSE c

\* str.lower()
str_lower(s) == [i \in 1..Len(s) |-> char_lower(s[i])]

\* a < b on str: lexicographic on code points
str_lt(a, b) ==
    \E k \in 1..(Len(a) + 1) :
        /\ k <= Len(b)
        /\ \A j \in 1..(k - 1) : a[j] = b[j]
        /\ \/ k = Len(a) + 1
           \/ k <= Len(a) /\ ord(a[k]) < ord(b[k])

\* sub in s
contains(s, sub) ==
    \E i \in 1..(Len(s) - Len(sub) + 1) : SubSeq(s, i, i + Len(sub) - 1) = sub

\* ------------------------------------------------------------ log_to_file

\* The diagnostics state: the lines appended to LOGFILE and the collector.
Diag(lines, errors) == [logged |-> lines, errors |-> errors]

\* log_to_file(message, level); appendOk: opening and appending to LOGFILE
\* succeeds.  When it raises, the except clause swallows it and the ERROR
\* message is not collected either (the append comes after the write).
log_to_file(d, message, level, appendOk) ==
    IF appendOk
    THEN Diag(Append(d.logged, <<level, message>>),
              IF level = "ERROR" THEN Append(d.errors, message) ELSE d.errors)
    ELSE d

\* ---------------------------------------------------- update_course_colors

\* Palette size K: the wrap test `if n > 15`
PaletteSize == 15

\* f"course-color-{n}"
SlotLabel(n) == [prefix |-> "course-color-", num |-> n]

\* parse_num(val): the number after "course-color-", or nothing (None);
\* given as a set so that filtering out None is a union
parse_num(val) == IF val.prefix = "course-color-" THEN {val.num} ELSE {}

EmptyMap == [c \in {} |-> SlotLabel(1)]

\* A file content: kind is
\*   "absent"    os.path.exists is false
\*   "object"    a JSON object, in map
\*   "falsy"     valid JSON that is falsy (null, 0, "", [], {}): `or {}`
\*   "nonobject" valid JSON, truthy, not an object (a list, a string, a number)
\*   "invalid"   not JSON (empty or truncated file): json.load raises
FileOf(kind, map) == [kind |-> kind, map |-> map]

ObjectFile(map) == FileOf("object", map)

\* Course names of the current payloads
Courses == { <<"a", "r", "t">>, <<"A", "r", "t">>, <<"B", "i", "o">> }

\* Other course names, "oa", "ob", ...: courses of earlier terms, bound in the
\* persisted maps, and the courses of the large payloads
OldCourse(i) == <<"o", LowerCase[i]>>

\* the map binding old course i to slot i for each i in U
OldMap(U) == [c \in {OldCourse(i) : i \in U} |-> SlotLabel(IndexIn(LowerCase, c[2]))]

InitialFiles ==
    { ObjectFile(OldMap(U)) : U \in { 1..k : k \in {0, 1, 2, 13, 14, 15} } \cup { (1..15) \ {g} : g \in {1, 3, 14} } \cup { {2}, {1, 3}, (1..15) \ {2, 3}, (1..15) \ {1, 15} } }
    \cup { FileOf(k, EmptyMap) : k \in {"absent", "falsy", "nonobject", "invalid"} }

\* the iteration orders of a set: every sequence that lists it once
Orders(S) ==
    { f \in [1..Cardinality(S) -> S] : \A i, j \in 1..Cardinality(S) : i # j => f[i] # f[j] }

\* sorted(..., key=lambda s: s.lower()) is stable: x goes after every element
\* whose key is not greater than its own
insort(acc, x) ==
    LET k == Cardinality({ i \in 1..Len(acc) : ~ str_lt(str_lower(x), str_lower(acc[i])) })
    IN  SubSeq(acc, 1, k) \o <<x>> \o SubSeq(acc, k + 1, Len(acc))

RECURSIVE sorted_from(_, _, _)
sorted_from(seq, i, acc) ==
    IF i > Len(seq) THEN acc ELSE sorted_from(seq, i + 1, insort(acc, seq[i]))

\* classes = sorted(classes, key=lambda s: s.lower()), classes iterated as `order`
sorted_by_lower(order) == sorted_from(order, 1, <<>>)

\* a used set that forgets the numbers loaded from the file
used_numbers_forgotten(mapping) == {}

\* used = set(filter(..., (parse_num(v) for v in mapping.values())))
used_numbers(mapping) == UNION { parse_num(mapping[c]) : c \in DOMAIN mapping }

\* next_number(): the while loop from n; steps counts the loop iterations
RECURSIVE next_number_loop(_, _, _)
next_number_loop(used, n, steps) ==
    IF n \notin used
    THEN [n |-> n, used |-> used \cup {n}, steps |-> steps]
    ELSE IF n + 1 > PaletteSize
         THEN [n |-> 1, used |-> used \cup {1}, steps |-> steps]
         ELSE next_number_loop(used, n + 1, steps + 1)

\* a next_number that grows past the palette instead of wrapping
next_number_no_wrap(used) ==
    LET n == CHOOSE m \in 1..(PaletteSize + 1) :
                 m \notin used /\ \A k \in 1..(m - 1) : k \in used
    IN  [n |-> n, used |-> used \cup {n}, steps |-> n]

\* a next_number that hands out slot 1 every time
next_number_always_one(used) == [n |-> 1, used |-> used \cup {1}, steps |-> 1]

next_number(used) == next_number_loop(used, 1, 1)

\* a test that allocates for every class of the payload, bound or not
needs_slot_always(cname, mapping) == TRUE

\* `if cname not in mapping`
needs_slot(cname, mapping) == cname \notin DOMAIN mapping

\* mapping[cname] = f"course-color-{n}"
bind(mapping, cname, n) ==
    [c \in DOMAIN mapping \cup {cname} |-> IF c = cname THEN SlotLabel(n) ELSE mapping[c]]

\* for cname in classes: ... ; allocs records each allocation with the
\* mapping it was made in
RECURSIVE allocate(_, _, _, _, _)
allocate(classes, i, mapping, used, allocs) ==
    IF i > Len(classes) THEN [mapping |-> mapping, allocs |-> allocs]
    ELSE IF needs_slot(classes[i], mapping)
         THEN LET r == next_number(used)
              IN  allocate(classes, i + 1, bind(mapping, classes[i], r.n), r.used,
                           Append(allocs, [cname |-> classes[i], n |-> r.n,
                                           steps |-> r.steps, at |-> mapping]))
         ELSE allocate(classes, i + 1, mapping, used, allocs)

\* a load that starts from an empty mapping whatever the file holds
load_mapping_forget(file) ==
    [mapping |-> EmptyMap, raised |-> FALSE, isdict |-> file.kind # "nonobject"]

\* the mapping loaded from the file (lines 113-120) and whether reading raised
load_mapping(file) ==
    CASE file.kind = "object" -> [mapping |-> file.map, raised |-> FALSE, isdict |-> TRUE]
      [] file.kind = "invalid" -> [mapping |-> EmptyMap, raised |-> TRUE, isdict |-> TRUE]
      [] file.kind = "nonobject" -> [mapping |-> EmptyMap, raised |-> FALSE, isdict |-> FALSE]
      [] OTHER -> [mapping |-> EmptyMap, raised |-> FALSE, isdict |-> TRUE]

\* the file after the save of lines 153-155; wr is how the save went:
\*   "ok"           written whole
\*   "open_failed"  os.makedirs or open raised: the file is as before
\*   "dump_failed"  open truncated the file and the write did not complete
save_mapping(file, mapping, wr) ==
    CASE wr = "ok" -> ObjectFile(mapping)
      [] wr = "dump_failed" -> FileOf("invalid", EmptyMap)
      [] OTHER -> file

WriteOutcomes == {"ok", "open_failed", "dump_failed"}

\* classes: the sorted class names; pre: the file the call found; allocs: the
\* slots it allocated; outcome: how it ended; repeat: the call before it was
\* given the same class names and wrote its map
NoRun == [classes |-> <<>>, pre |-> FileOf("absent", EmptyMap), allocs |-> <<>>,
          outcome |-> "none", repeat |-> FALSE]

Range(seq) == { seq[i] : i \in DOMAIN seq }

\* lines 110-150 on the file found: sort, load, allocate
reconcile(file, order) ==
    LET ld == load_mapping(file)
    IN  allocate(sorted_by_lower(order), 1, ld.mapping, used_numbers(ld.mapping), <<>>)

\* update_course_colors(consolidated_data) on the file `file`, with the
\* diagnostics `d` so far: order is the iteration order of the set of class
\* names built from the payload's records, wr how the save goes, prev the
\* record of the call before.  Gives the file, the diagnostics and the record
\* of the call.
update_course_colors(file, d, prev, order, wr, appendOk) ==
    LET ld      == load_mapping(file)
        d1      == IF ld.raised
                   THEN log_to_file(d, "Could not read course colors", "WARNING", appendOk)
                   ELSE d
        res     == reconcile(file, order)
        failed  == ~ ld.isdict \/ wr # "ok"
        d2      == IF failed
                   THEN log_to_file(d1, "Failed to update course color mapping", "ERROR", appendOk)
                   ELSE log_to_file(d1, "Course color mapping updated", "INFO", appendOk)
    IN  [file |-> IF ld.isdict THEN save_mapping(file, res.mapping, wr) ELSE file,
         diag |-> d2,
         run  |-> [classes |-> sorted_by_lower(order),
                   pre     |-> file,
                   allocs  |-> IF ld.isdict THEN res.allocs ELSE <<>>,
                   outcome |-> IF ~ ld.isdict THEN "load_error"
                               ELSE IF wr = "ok" THEN "written" ELSE wr,
                   repeat  |-> /\ prev.outcome = "written"
                               /\ Range(prev.classes) = Range(order)]]

\* lines 100-108: the set of the class values that are not empty
class_set(names) == { c \in names : c # <<>> }

\* One run of the allocator on the class names of some payload.
UpdateCourseColors ==
    /\ runs < MaxRuns
    /\ \E names \in ((SUBSET Courses) \cup { {<<>>, <<"B", "i", "o">>} }) :
         \E order \in Orders(class_set(names)) :
           \E wr \in WriteOutcomes :
             LET r == update_course_colors(course_colors_file, Diag(<<>>, _error_messages),
                                           colors_run, order, wr, TRUE)
             IN  /\ course_colors_file' = r.file
                 /\ colors_run' = r.run
                 /\ logged' = r.diag.logged
                 /\ _error_messages' = r.diag.errors
    /\ runs' = runs + 1
    /\ UNCHANGED <<today, parse_call, pc, main_run, sort_call, dedup_call, points_rows, index_html, embed_call,
                   jupiter_call, scrape>>

MaxCourses == 16

\* One run of the allocator on a payload of many courses: the first or the
\* last 3, 12, 15 or MaxCourses of MaxCourses course names.
UpdateManyCourses ==
    /\ runs < MaxRuns
    /\ \E first, last \in 1..MaxCourses :
         /\ first = 1 \/ last = MaxCourses
         /\ last - first + 1 \in {3, 12, PaletteSize, MaxCourses}
         /\ \E wr \in WriteOutcomes :
              \E r \in { update_course_colors(
                             course_colors_file, Diag(<<>>, _error_messages), colors_run,
                             [k \in 1..(last - first + 1) |-> OldCourse(first + k - 1)],
                             wr, TRUE) } :
                  /\ course_colors_file' = r.file
                  /\ colors_run' = r.run
                  /\ logged' = r.diag.logged
                  /\ _error_messages' = r.diag.errors
    /\ runs' = runs + 1
    /\ UNCHANGED <<today, parse_call, pc, main_run, sort_call, dedup_call, points_rows,
                   index_html, embed_call, jupiter_call, scrape>>

\* -------------------------------------------------- parse_assignment_date

\* A Python value that is None or a str
PyNone == [kind |-> "None", text |-> <<>>]

PyStr(s) == [kind |-> "str", text |-> s]

\* the days `today` ranges over: FirstDay is 2023-12-25, a Monday, so the
\* days cover every weekday and the turn of a year
FirstDay == 738879

NumDays == 14

\* datetime.weekday(): 0 = Monday ... 6 = Sunday; ordinal 1 is a Monday
weekday_of(ordinal) == (ordinal + 6) % 7

is_leap(y) == y % 4 = 0 /\ (y % 100 # 0 \/ y % 400 = 0)

days_in_month(y, m) ==
    IF m = 2 THEN (IF is_leap(y) THEN 29 ELSE 28)
    ELSE IF m \in {4, 6, 9, 11} THEN 30 ELSE 31

days_before_year(y) ==
    (y - 1) * 365 + ((y - 1) \div 4) - ((y - 1) \div 100) + ((y - 1) \div 400)

RECURSIVE days_before_month(_, _)
days_before_month(y, m) ==
    IF m = 1 THEN 0 ELSE days_before_month(y, m - 1) + days_in_month(y, m - 1)

\* date(y, m, d).toordinal()
ymd2ord(y, m, d) == days_before_year(y) + days_before_month(y, m) + d

\* date.fromordinal(n): the year, month and day of an ordinal
ord2ymd(n) ==
    LET n0   == n - 1
        n400 == n0 \div 146097
        r400 == n0 % 146097
        n100 == r400 \div 36524
        r100 == r400 % 36524
        n4   == r100 \div 1461
        r4   == r100 % 1461
        n1   == r4 \div 365
        r1   == r4 % 365
        year == n400 * 400 + 1 + n100 * 100 + n4 * 4 + n1
    IN  IF n1 = 4 \/ n100 = 4
        THEN [y |-> year - 1, m |-> 12, d |-> 31]
        ELSE LET m == CHOOSE k \in 1..12 :
                          /\ days_before_month(year, k) <= r1
                          /\ r1 < days_before_month(year, k) + days_in_month(year, k)
             IN  [y |-> year, m |-> m, d |-> r1 - days_before_month(year, m) + 1]

digit(k) == Digits[k + 1]

\* strftime('%Y-%m-%d') of the date with this ordinal
strftime_ymd(ordinal) ==
    LET c == ord2ymd(ordinal)
    IN  << digit((c.y \div 1000) % 10), digit((c.y \div 100) % 10),
           digit((c.y \div 10) % 10), digit(c.y % 10), "-",
           digit(c.m \div 10), digit(c.m % 10), "-",
           digit(c.d \div 10), digit(c.d % 10) >>

isdigit(c) == IsIn(Digits, c)

isspace(c) == c = " "

\* \w of the re module
isword(c) == isdigit(c) \/ IsIn(LowerCase, c) \/ IsIn(UpperCase, c) \/ c = "_"

\* the character at i, or "" beyond the ends
char_at(s, i) == IF i \in 1..Len(s) THEN s[i] ELSE ""

\* str.strip()
str_strip(s) ==
    LET keep == { i \in 1..Len(s) : ~ isspace(s[i]) }
    IN  IF keep = {} THEN <<>>
        ELSE SubSeq(s, CHOOSE i \in keep : \A j \in keep : i <= j,
                       CHOOSE i \in keep : \A j \in keep : j <= i)

\* the due-date texts a call is given
DateTexts ==
    \* sentinel texts
    { <<>>,
      <<"U", "n", "k", "n", "o", "w", "n">>,
      <<"N", "o", " ", "d", "u", "e", " ", "d", "a", "t", "e">>,
      <<"p", "o", "s", "t", "e", "d", " ", "3", " ", "d", "a", "y", "s", " ", "a", "g", "o">>,
      <<"p", "o", "s", "t", "e", "d", " ", "t", "o", "d", "a", "y">>,
      <<"P", "o", "s", "t", "e", "d", " ", "M", "o", "n", "d", "a", "y">>,
      <<"D", "u", "e", " ", "d", "a", "t", "e", " ", "U", "N", "K", "N", "O", "W", "N">> }
    \cup
    \* texts with a relative-day keyword
    { <<"T", "o", "d", "a", "y">>,
      <<"D", "u", "e", " ", "t", "o", "m", "o", "r", "r", "o", "w">>,
      <<"Y", "e", "s", "t", "e", "r", "d", "a", "y">>,
      <<"T", "o", "d", "a", "y", ",", " ", "M", "a", "r", "c", "h", " ", "5">>,
      <<"t", "o", "m", "o", "r", "r", "o", "w", " ", "3", "/", "5">>,
      <<"M", "o", "n", "d", "a", "y", " ", "y", "e", "s", "t", "e", "r", "d", "a", "y">>,
      <<"t", "o", "d", "a", "y", " ", "o", "r", " ", "t", "o", "m", "o", "r", "r", "o", "w">> }
    \cup
    \* texts with a weekday name
    { <<"M", "o", "n", "d", "a", "y">>,
      <<"t", "u", "e", "s", "d", "a", "y">>,
      <<"W", "e", "d", "n", "e", "s", "d", "a", "y", ",", " ", "1", "1", ":", "5", "9", " ", "P", "M">>,
      <<"D", "u", "e", " ", "T", "h", "u", "r", "s", "d", "a", "y">>,
      <<"F", "R", "I", "D", "A", "Y">>,
      <<" ", "S", "a", "t", "u", "r", "d", "a", "y", " ">>,
      <<"S", "u", "n", "d", "a", "y">>,
      <<"T", "u", "e", "s", "d", "a", "y", " ", "o", "r", " ", "M", "o", "n", "d", "a", "y">> }
    \cup
    \* other texts
    { <<"M", "a", "r", "c", "h", " ", "5", ",", " ", "2", "0", "9", "9">>,
      <<"M", "o", "n", "d", "a", "y", ",", " ", "M", "a", "r", "c", "h", " ", "5">>,
      <<"M", "o", "n", " ", "3", "/", "5">>,
      <<"M", "o", "n">>,
      <<"F", "r", "i", "d", "a", "y", " ", "m", "a", "y", "b", "e">>,
      <<"F", "r", "i", "d", "a", "y", " ", "3", "/", "5">>,
      <<"0", "8", "3", "3", "5", "3", "9", "4", "5", "5", "0">>,
      <<"2", "0", "2", "4", "-", "W", "0", "1", "-", "1">>,
      <<"n", "o", "t", " ", "a", " ", "d", "a", "t", "e", " ", "a", "t", " ", "a", "l", "l", ",", " ", "j", "u", "s", "t", " ", "w", "o", "r", "d", "s">>,
      <<" ", " ">> }

\* `date_str in ['', 'Unknown', 'No due date']`
ExactSentinels == { <<>>, <<"U", "n", "k", "n", "o", "w", "n">>,
                    <<"N", "o", " ", "d", "u", "e", " ", "d", "a", "t", "e">> }

\* the keywords of line 82
SkipKeywords == { <<"p", "o", "s", "t", "e", "d">>,
                  <<"n", "o", " ", "d", "u", "e", " ", "d", "a", "t", "e">>,
                  <<"u", "n", "k", "n", "o", "w", "n">> }

kw_today == <<"t", "o", "d", "a", "y">>

kw_yesterday == <<"y", "e", "s", "t", "e", "r", "d", "a", "y">>

kw_tomorrow == <<"t", "o", "m", "o", "r", "r", "o", "w">>

MonthNames ==
    <<<<"j", "a", "n", "u", "a", "r", "y">>,
       <<"f", "e", "b", "r", "u", "a", "r", "y">>,
       <<"m", "a", "r", "c", "h">>,
       <<"a", "p", "r", "i", "l">>,
       <<"m", "a", "y">>,
       <<"j", "u", "n", "e">>,
       <<"j", "u", "l", "y">>,
       <<"a", "u", "g", "u", "s", "t">>,
       <<"s", "e", "p", "t", "e", "m", "b", "e", "r">>,
       <<"o", "c", "t", "o", "b", "e", "r">>,
       <<"n", "o", "v", "e", "m", "b", "e", "r">>,
       <<"d", "e", "c", "e", "m", "b", "e", "r">>,
       <<"j", "a", "n">>,
       <<"f", "e", "b">>,
       <<"m", "a", "r">>,
       <<"a", "p", "r">>,
       <<"m", "a", "y">>,
       <<"j", "u", "n">>,
       <<"j", "u", "l">>,
       <<"a", "u", "g">>,
       <<"s", "e", "p">>,
       <<"o", "c", "t">>,
       <<"n", "o", "v">>,
       <<"d", "e", "c">> >>

weekdays ==
    <<<<"m", "o", "n", "d", "a", "y">>,
       <<"t", "u", "e", "s", "d", "a", "y">>,
       <<"w", "e", "d", "n", "e", "s", "d", "a", "y">>,
       <<"t", "h", "u", "r", "s", "d", "a", "y">>,
       <<"f", "r", "i", "d", "a", "y">>,
       <<"s", "a", "t", "u", "r", "d", "a", "y">>,
       <<"s", "u", "n", "d", "a", "y">> >>

\* a keyword test that forgets to lower the text
has_skip_keyword_cased(text) == \E k \in SkipKeywords : contains(text, k)

\* `any(keyword in date_str.lower() for keyword in [...])`
has_skip_keyword(text) == \E k \in SkipKeywords : contains(str_lower(text), k)

\* lines 78-83: the inputs answered None before any parsing
is_skipped(date_str) ==
    \/ date_str.kind = "None"
    \/ date_str.text = <<>>
    \/ date_str.text \in ExactSentinels
    \/ has_skip_keyword(date_str.text)

\* a relative-day rule with the offsets of "yesterday" and "tomorrow" swapped
relative_day_swapped(clean_lower, now) ==
    IF contains(clean_lower, kw_today) THEN {now}
    ELSE IF contains(clean_lower, kw_yesterday) THEN {now + 1}
    ELSE IF contains(clean_lower, kw_tomorrow) THEN {now - 1}
    ELSE {}

\* lines 90-95: the day a relative keyword names, or nothing
relative_day(clean_lower, now) ==
    IF contains(clean_lower, kw_today) THEN {now}
    ELSE IF contains(clean_lower, kw_yesterday) THEN {now - 1}
    ELSE IF contains(clean_lower, kw_tomorrow) THEN {now + 1}
    ELSE {}

has_month_never(clean_lower) == FALSE

\* lines 103-108
has_month(clean_lower) == \E i \in DOMAIN MonthNames : contains(clean_lower, MonthNames[i])

\* \b between position i - 1 and position i
word_boundary(s, i) == isword(char_at(s, i - 1)) # isword(char_at(s, i))

\* \b\d{1,2}[/\-]\d{1,2} matching from i
date_re_slash(s, i) ==
    /\ word_boundary(s, i)
    /\ isdigit(char_at(s, i))
    /\ \E nd \in 1..2 :
          /\ \A k \in 0..(nd - 1) : isdigit(char_at(s, i + k))
          /\ char_at(s, i + nd) \in {"/", "-"}
          /\ isdigit(char_at(s, i + nd + 1))

OrdinalSuffixes == { <<"s", "t">>, <<"n", "d">>, <<"r", "d">>, <<"t", "h">> }

\* the positions \s* can reach from p
after_spaces(s, p) ==
    { q \in p..(Len(s) + 1) : \A k \in p..(q - 1) : isspace(char_at(s, k)) }

\* the positions (st|nd|rd|th)? can reach from p
after_suffix(s, p) ==
    {p} \cup (IF p + 1 <= Len(s) /\ SubSeq(s, p, p + 1) \in OrdinalSuffixes
              THEN {p + 2} ELSE {})

\* \b\d{1,2}\s*(st|nd|rd|th)?\s*, matching from i
date_re_comma(s, i) ==
    /\ word_boundary(s, i)
    /\ isdigit(char_at(s, i))
    /\ \E nd \in 1..2 :
          /\ \A k \in 0..(nd - 1) : isdigit(char_at(s, i + k))
          /\ \E p1 \in after_spaces(s, i + nd) :
                \E p2 \in after_suffix(s, p1) :
                   \E p3 \in after_spaces(s, p2) : char_at(s, p3) = ","

\* \b\d{4}\b matching from i
date_re_year(s, i) ==
    /\ isdigit(char_at(s, i))
    /\ word_boundary(s, i)
    /\ \A k \in 0..3 : isdigit(char_at(s, i + k))
    /\ word_boundary(s, i + 4)

\* line 112: re.search of the three alternatives
has_date_numbers(clean_lower) ==
    \E i \in 1..Len(clean_lower) :
        \/ date_re_slash(clean_lower, i)
        \/ date_re_comma(clean_lower, i)
        \/ date_re_year(clean_lower, i)

\* the indexes, in list order, of the weekday names found in the text
weekdays_in(clean_lower) == { k \in DOMAIN weekdays : contains(clean_lower, weekdays[k]) }

\* a days_ago that keeps 0 for the same weekday
days_ago_same_day(current_weekday, target_weekday) == (current_weekday - target_weekday) % 7

\* lines 124-126
days_ago(current_weekday, target_weekday) ==
    LET d == (current_weekday - target_weekday) % 7
    IN  IF d = 0 THEN 7 ELSE d

\* a days_ahead that keeps 0 for the same weekday
days_ahead_same_day(current_weekday, target_weekday) == (target_weekday - current_weekday) % 7

\* lines 130-132
days_ahead(current_weekday, target_weekday) ==
    LET d == (target_weekday - current_weekday) % 7
    IN  IF d = 0 THEN 7 ELSE d

\* lines 115-135: the day the weekday rule resolves to, or nothing when the
\* rule does not apply; the first name of the list found in the text decides
weekday_day(clean_lower, is_missing, now) ==
    IF has_month(clean_lower) \/ has_date_numbers(clean_lower) \/ weekdays_in(clean_lower) = {}
    THEN {}
    ELSE LET k      == CHOOSE x \in weekdays_in(clean_lower) :
                           \A z \in weekdays_in(clean_lower) : x <= z
             target == k - 1
         IN  IF is_missing
             THEN {now - days_ago(weekday_of(now), target)}
             ELSE {now + days_ahead(weekday_of(now), target)}

\* dateutil_parser.parse(clean_date, default=today) of line 138, for the
\* texts of DateTexts that reach it: the day parsed, or nothing when the
\* library raises ValueError.  A month and a day take the year of the default;
\* a weekday with no day of the month is the default moved to that weekday,
\* on or after it; every other text here is empty or has a token the library
\* does not know, which it rejects (the call is not fuzzy).
dateutil_parse(clean_date, now) ==
    CASE clean_date = <<"M", "a", "r", "c", "h", " ", "5", ",", " ", "2", "0", "9", "9">>
           -> {ymd2ord(2099, 3, 5)}
      [] clean_date = <<"M", "o", "n", "d", "a", "y", ",", " ", "M", "a", "r", "c", "h", " ", "5">>
           -> {ymd2ord(ord2ymd(now).y, 3, 5)}
      [] clean_date = <<"M", "o", "n", " ", "3", "/", "5">>
           -> {ymd2ord(ord2ymd(now).y, 3, 5)}
      [] clean_date = <<"M", "o", "n">>
           -> {now + ((0 - weekday_of(now)) % 7)}
      [] clean_date = <<"F", "r", "i", "d", "a", "y", " ", "3", "/", "5">>
           -> {ymd2ord(ord2ymd(now).y, 3, 5)}
      [] OTHER -> {}

\* whether that call raises OverflowError: a bare 11-digit number is taken as
\* the year, and datetime.replace refuses a year that does not fit a C int
\* with OverflowError, which the library lets through (it turns only
\* ValueError into its ParserError)
dateutil_overflows(clean_date) ==
    /\ Len(clean_date) = 11
    /\ \A i \in DOMAIN clean_date : isdigit(clean_date[i])

\* parse_assignment_date(date_str, is_missing) called on day `now`: the value
\* returned, whether the WARNING of line 142 was logged, the rule that made
\* the result, and whether an exception left the function (the except clause
\* of line 141 names ValueError and TypeError only)
parse_assignment_date(date_str, is_missing, now) ==
    IF is_skipped(date_str)
    THEN [result |-> PyNone, warned |-> FALSE, rule |-> "sentinel", raised |-> FALSE]
    ELSE LET clean_date  == str_strip(date_str.text)
             clean_lower == str_lower(clean_date)
             rel         == relative_day(clean_lower, now)
             wk          == weekday_day(clean_lower, is_missing, now)
             du          == dateutil_parse(clean_date, now)
             day         == IF rel # {} THEN rel ELSE IF wk # {} THEN wk ELSE du
             rule        == IF rel # {} THEN "relative"
                            ELSE IF wk # {} THEN "weekday" ELSE "parser"
         IN  IF day # {}
             THEN [result |-> PyStr(strftime_ymd(CHOOSE x \in day : TRUE)),
                   warned |-> FALSE, rule |-> rule, raised |-> FALSE]
             ELSE IF dateutil_overflows(clean_date)
                  THEN [result |-> PyNone, warned |-> FALSE, rule |-> "parser",
                        raised |-> TRUE]
                  ELSE [result |-> date_str, warned |-> TRUE, rule |-> "fallback",
                        raised |-> FALSE]

NoCall == [called |-> FALSE, date_str |-> PyNone, is_missing |-> FALSE,
           result |-> PyNone, warned |-> FALSE, rule |-> "none", raised |-> FALSE,
           log_ok |-> TRUE]

\* One call of parse_assignment_date by an extractor.
ParseAssignmentDate ==
    /\ ~ parse_call.called
    /\ \E date_str \in {PyNone} \cup {PyStr(x) : x \in DateTexts},
          is_missing \in BOOLEAN, appendOk \in BOOLEAN :
         LET r == parse_assignment_date(date_str, is_missing, today)
             d == IF r.warned
                  THEN log_to_file(Diag(<<>>, _error_messages), "Could not parse date",
                                   "WARNING", appendOk)
                  ELSE Diag(<<>>, _error_messages)
         IN  /\ parse_call' = [called |-> TRUE, date_str |-> date_str,
                               is_missing |-> is_missing, result |-> r.result,
                               warned |-> r.warned, rule |-> r.rule,
                               raised |-> r.raised, log_ok |-> appendOk]
             /\ logged' = d.logged
             /\ _error_messages' = d.errors
    /\ UNCHANGED <<course_colors_file, colors_run, runs, today, pc, main_run, sort_call, dedup_call, points_rows, index_html, embed_call,
                   jupiter_call, scrape>>

\* ---------------------------------------------------- ISO dates (readers)

digit_value(c) == IndexIn(Digits, c) - 1

\* whether date.fromisoformat accepts the text as YYYY-MM-DD
is_iso_date(text) ==
    /\ Len(text) = 10
    /\ text[5] = "-" /\ text[8] = "-"
    /\ \A i \in {1, 2, 3, 4, 6, 7, 9, 10} : isdigit(text[i])
    /\ LET y == digit_value(text[1]) * 1000 + digit_value(text[2]) * 100
                + digit_value(text[3]) * 10 + digit_value(text[4])
           m == digit_value(text[6]) * 10 + digit_value(text[7])
           d == digit_value(text[9]) * 10 + digit_value(text[10])
       IN  y >= 1 /\ m \in 1..12 /\ d >= 1 /\ d <= days_in_month(y, m)

\* date.fromisoformat(text).toordinal()
iso_ordinal(text) ==
    ymd2ord(digit_value(text[1]) * 1000 + digit_value(text[2]) * 100
              + digit_value(text[3]) * 10 + digit_value(text[4]),
            digit_value(text[6]) * 10 + digit_value(text[7]),
            digit_value(text[9]) * 10 + digit_value(text[10]))

\* the year of a text that starts with four digits
iso_year(text) ==
    digit_value(text[1]) * 1000 + digit_value(text[2]) * 100
    + digit_value(text[3]) * 10 + digit_value(text[4])

\* the number of ISO weeks of the year: 53 when January 1 is a Thursday, or a
\* Wednesday of a leap year
iso_weeks_in(y) ==
    LET jan1 == weekday_of(ymd2ord(y, 1, 1))
    IN  IF jan1 = 3 \/ (jan1 = 2 /\ is_leap(y)) THEN 53 ELSE 52

\* whether date.fromisoformat accepts the text as the week date YYYY-Www-D
\* (it does from Python 3.11 on, the version of the interpreter that compiled
\* src/tools/__pycache__)
is_iso_week_date(text) ==
    /\ Len(text) = 10
    /\ text[5] = "-" /\ text[6] = "W" /\ text[9] = "-"
    /\ \A i \in {1, 2, 3, 4, 7, 8, 10} : isdigit(text[i])
    /\ iso_year(text) >= 1
    /\ digit_value(text[7]) * 10 + digit_value(text[8]) \in 1..iso_weeks_in(iso_year(text))
    /\ digit_value(text[10]) \in 1..7

\* date.fromisoformat(text).toordinal() of a week date: week 1 is the week of
\* January 4, and the weeks start on Monday
iso_week_ordinal(text) ==
    LET jan4 == ymd2ord(iso_year(text), 1, 4)
    IN  jan4 - weekday_of(jan4)
        + (digit_value(text[7]) * 10 + digit_value(text[8]) - 1) * 7
        + digit_value(text[10]) - 1

\* ------------------------------------------------ sort_assignments_by_date

\* create_assignment_object: the fields the orchestrator reads
Assignment(name, class, due_date_parsed, url) ==
    [name |-> name, class |-> class, due_date_parsed |-> due_date_parsed, url |-> url]

\* whether datetime.fromisoformat accepts the text as YYYY-MM-DDTHH:MM:SS
is_iso_datetime(text) ==
    /\ Len(text) = 19
    /\ is_iso_date(SubSeq(text, 1, 10))
    /\ text[11] = "T" /\ text[14] = ":" /\ text[17] = ":"
    /\ \A i \in {12, 13, 15, 16, 18, 19} : isdigit(text[i])
    /\ digit_value(text[12]) * 10 + digit_value(text[13]) <= 23
    /\ digit_value(text[15]) * 10 + digit_value(text[16]) <= 59
    /\ digit_value(text[18]) * 10 + digit_value(text[19]) <= 59

\* seconds since the start of the day of an accepted HH:MM:SS
iso_seconds(text) ==
    (digit_value(text[12]) * 10 + digit_value(text[13])) * 3600
    + (digit_value(text[15]) * 10 + digit_value(text[16])) * 60
    + digit_value(text[18]) * 10 + digit_value(text[19])

\* a datetime as a sort key: its day and the seconds since the day began
Key(day, secs) == [day |-> day, secs |-> secs]

\* datetime.max, 9999-12-31T23:59:59.999999: later than every second of
\* every day
datetime_max == Key(ymd2ord(9999, 12, 31), 86400)

\* a <= b on datetimes
key_le(a, b) == a.day < b.day \/ (a.day = b.day /\ a.secs <= b.secs)

\* a key that takes a date-only value as the start of its day
get_sort_key_start_of_day(assignment) ==
    LET v == assignment.due_date_parsed
    IN  IF v.kind = "None" \/ v.text = <<>>
        THEN [key |-> datetime_max, warned |-> FALSE]
        ELSE IF is_iso_datetime(v.text)
             THEN [key |-> Key(iso_ordinal(v.text), iso_seconds(v.text)), warned |-> FALSE]
             ELSE IF is_iso_date(v.text)
                  THEN [key |-> Key(iso_ordinal(v.text), 0), warned |-> FALSE]
                  ELSE [key |-> datetime_max, warned |-> TRUE]

\* get_sort_key(assignment): the key, and whether the WARNING of line 37 was
\* logged
get_sort_key(assignment) ==
    LET v == assignment.due_date_parsed
    IN  IF v.kind = "None" \/ v.text = <<>>
        THEN [key |-> datetime_max, warned |-> FALSE]
        ELSE IF IsIn(v.text, "T")
             THEN IF is_iso_datetime(v.text)
                  THEN [key |-> Key(iso_ordinal(v.text), iso_seconds(v.text)),
                        warned |-> FALSE]
                  ELSE [key |-> datetime_max, warned |-> TRUE]
             ELSE IF is_iso_date(v.text)
                  THEN [key |-> Key(iso_ordinal(v.text), 86399), warned |-> FALSE]
                  ELSE IF is_iso_week_date(v.text)
                       THEN [key |-> Key(iso_week_ordinal(v.text), 86399),
                             warned |-> FALSE]
                       ELSE [key |-> datetime_max, warned |-> TRUE]

insort_before_equal(acc, x) ==
    LET k == Cardinality({ i \in 1..Len(acc) :
                               ~ key_le(get_sort_key(x).key, get_sort_key(acc[i]).key) })
    IN  SubSeq(acc, 1, k) \o <<x>> \o SubSeq(acc, k + 1, Len(acc))

\* sorted() is stable: a record goes after every record whose key is not
\* greater than its own
insort_by_key(acc, x) ==
    LET k == Cardinality({ i \in 1..Len(acc) :
                               key_le(get_sort_key(acc[i]).key, get_sort_key(x).key) })
    IN  SubSeq(acc, 1, k) \o <<x>> \o SubSeq(acc, k + 1, Len(acc))

RECURSIVE sorted_by_key_from(_, _, _)
sorted_by_key_from(seq, i, acc) ==
    IF i > Len(seq) THEN acc ELSE sorted_by_key_from(seq, i + 1, insort_by_key(acc, seq[i]))

\* sort_assignments_by_date(assignments)
sort_assignments_by_date(assignments) == sorted_by_key_from(assignments, 1, <<>>)

\* the diagnostics after the key function ran on each record in turn
RECURSIVE log_sort_warnings(_, _, _, _)
log_sort_warnings(d, assignments, i, appendOk) ==
    IF i > Len(assignments) THEN d
    ELSE log_sort_warnings(
             IF get_sort_key(assignments[i]).warned
             THEN log_to_file(d, "Could not parse date", "WARNING", appendOk)
             ELSE d,
             assignments, i + 1, appendOk)

\* ------------------------------------------------------------------ main

art == <<"a", "r", "t">>

Bio == <<"B", "i", "o">>

\* records of the classroom source
gEssay == Assignment("Essay", art, PyStr(<<"2", "0", "2", "4", "-", "0", "1", "-", "0", "5">>), "u1")

\* a classroom record with no url: the name, class and url of jEssay
gTwin == Assignment("Essay", art, PyStr(<<"T", "B", "D">>), "")

jEssay == Assignment("Essay", art, PyStr(<<"T", "B", "D">>), "")

\* what a source extractor does when called: raises an Exception, or returns
\* its two lists
Raises == [raised |-> TRUE, assigned |-> <<>>, missing |-> <<>>]

Returns(assigned, missing) == [raised |-> FALSE, assigned |-> assigned, missing |-> missing]

GclassroomResults ==
    { Raises, Returns(<<>>, <<>>), Returns(<<gEssay>>, <<(Assignment("Lab", Bio, PyNone, "u2"))>>),
      Returns(<<gEssay, (Assignment("Poster", Bio, PyStr(<<"2", "0", "2", "4", "-", "0", "1", "-", "0", "3">>), "u3"))>>, <<gTwin>>) }

JupiterResults ==
    { Raises, Returns(<<>>, <<>>), Returns(<<(Assignment("Quiz", Bio, PyStr(<<"2", "0", "2", "4", "-", "0", "1", "-", "0", "4">>), ""))>>, <<jEssay>>) }

EmptyData == [assigned |-> <<>>, missing |-> <<>>]

\* started: main() was called; log_ok: LOGFILE can be appended to during the
\* run; gclassroom, jupiter: what the extractors did; gclassroom_data,
\* jupiter_data: the locals of get_all_assignments; payload: all_assignments
\* (its 'errors' is the collector list itself, line 170); colors: how
\* update_course_colors ended; saved: save_json_data's result and the errors
\* written; embedded: embed_data_in_html's result; returned: main's return
\* value; escaped: an exception left main; stale: the collector held messages
\* when main() was called
NoMain == [started |-> FALSE, log_ok |-> TRUE, stale |-> FALSE,
           gclassroom |-> Returns(<<>>, <<>>), jupiter |-> Returns(<<>>, <<>>),
           gclassroom_data |-> EmptyData, jupiter_data |-> EmptyData,
           payload |-> [built |-> FALSE, assigned |-> <<>>, missing |-> <<>>], colors |-> "none",
           saved |-> "none", saved_errors |-> <<>>, embedded |-> "none",
           returned |-> "none", escaped |-> FALSE]

DiagNow == Diag(logged, _error_messages)

\* log_to_file called on each message in turn
RECURSIVE log_lines(_, _, _, _)
log_lines(d, messages, level, appendOk) ==
    IF messages = <<>> THEN d
    ELSE log_lines(log_to_file(d, Head(messages), level, appendOk), Tail(messages),
                   level, appendOk)

\* lines 50-55 and 59-65: the data kept for a source and the diagnostics
extract_source(d, result, errorMessage, appendOk) ==
    IF result.raised
    THEN [data |-> EmptyData, diag |-> log_to_file(d, errorMessage, "ERROR", appendOk)]
    ELSE [data |-> [assigned |-> result.assigned, missing |-> result.missing],
          diag |-> log_to_file(d, "source: assigned, missing", "INFO", appendOk)]

merge_sources_unique(gclassroom_data, jupiter_data) ==
    [assigned |-> gclassroom_data.assigned
                  \o SelectSeq(jupiter_data.assigned,
                               LAMBDA r : \A i \in DOMAIN gclassroom_data.assigned :
                                              gclassroom_data.assigned[i] # r),
     missing  |-> gclassroom_data.missing
                  \o SelectSeq(jupiter_data.missing,
                               LAMBDA r : \A i \in DOMAIN gclassroom_data.missing :
                                              gclassroom_data.missing[i] # r)]

\* lines 69-80: the two lists of both sources, classroom first
merge_sources(gclassroom_data, jupiter_data) ==
    [assigned |-> gclassroom_data.assigned \o jupiter_data.assigned,
     missing  |-> gclassroom_data.missing \o jupiter_data.missing]

\* a clear that leaves the collector as it is
clear_error_messages_keeps(errors) == errors

\* clear_error_messages(): the collector is bound to a new empty list
clear_error_messages(errors) == <<>>

\* main() starts: clear_error_messages(), then get_all_assignments begins;
\* logged holds the lines of this run
MainStart ==
    /\ pc = "idle"
    /\ \E ok \in BOOLEAN :
         LET d == log_to_file(Diag(<<>>, clear_error_messages(_error_messages)),
                              "Starting consolidated assignment extraction", "INFO", ok)
         IN  /\ main_run' = [NoMain EXCEPT !.started = TRUE, !.log_ok = ok,
                                           !.stale = (_error_messages # <<>>)]
             /\ logged' = d.logged
             /\ _error_messages' = d.errors
    /\ pc' = "gclassroom"
    /\ UNCHANGED <<course_colors_file, colors_run, runs, today, parse_call, sort_call, dedup_call, points_rows, index_html, embed_call,
                   jupiter_call, scrape>>

\* lines 48-55
ExtractGoogleClassroom ==
    /\ pc = "gclassroom"
    /\ \E result \in GclassroomResults :
         LET d == log_to_file(DiagNow, "Extracting Google Classroom assignments", "INFO",
                              main_run.log_ok)
             r == extract_source(d, result, "Error extracting Google Classroom assignments",
                                 main_run.log_ok)
         IN  /\ main_run' = [main_run EXCEPT !.gclassroom = result, !.gclassroom_data = r.data]
             /\ logged' = r.diag.logged
             /\ _error_messages' = r.diag.errors
    /\ pc' = "jupiter"
    /\ UNCHANGED <<course_colors_file, colors_run, runs, today, parse_call, sort_call, dedup_call, points_rows, index_html, embed_call,
                   jupiter_call, scrape>>

\* lines 57-65
ExtractJupiter ==
    /\ pc = "jupiter"
    /\ \E result \in JupiterResults :
         LET d == log_to_file(DiagNow, "Extracting Jupiter assignments", "INFO",
                              main_run.log_ok)
             r == extract_source(d, result, "Error extracting Jupiter assignments",
                                 main_run.log_ok)
         IN  /\ main_run' = [main_run EXCEPT !.jupiter = result, !.jupiter_data = r.data]
             /\ logged' = r.diag.logged
             /\ _error_messages' = r.diag.errors
    /\ pc' = "consolidate"
    /\ UNCHANGED <<course_colors_file, colors_run, runs, today, parse_call, sort_call, dedup_call, points_rows, index_html, embed_call,
                   jupiter_call, scrape>>

\* lines 67-89 and 170: merge, sort both lists, update the course colors,
\* attach the collector as the payload's errors
Consolidate ==
    /\ pc = "consolidate"
    /\ LET merged  == merge_sources(main_run.gclassroom_data, main_run.jupiter_data)
           d0      == log_to_file(DiagNow, "Consolidating assignment data", "INFO",
                                  main_run.log_ok)
           d1      == log_sort_warnings(d0, merged.assigned, 1, main_run.log_ok)
           d2      == log_sort_warnings(d1, merged.missing, 1, main_run.log_ok)
           records == merged.assigned \o merged.missing
           names   == { records[i].class : i \in DOMAIN records }
       IN  \E order \in Orders(class_set(names)), wr \in WriteOutcomes :
             LET r == update_course_colors(course_colors_file, d2, NoRun, order, wr,
                                           main_run.log_ok)
             IN  /\ course_colors_file' = r.file
                 /\ logged' = r.diag.logged
                 /\ _error_messages' = r.diag.errors
                 /\ main_run' = [main_run EXCEPT
                        !.payload = [built    |-> TRUE,
                                     assigned |-> sort_assignments_by_date(merged.assigned),
                                     missing  |-> sort_assignments_by_date(merged.missing)],
                        !.colors = r.run.outcome]
    /\ pc' = "save"
    /\ UNCHANGED <<colors_run, runs, today, parse_call, sort_call, dedup_call, points_rows, index_html, embed_call,
                   jupiter_call, scrape>>

\* save_json_data(data, filename); ok: the file could be written
save_json_data(d, ok, appendOk) ==
    IF ok THEN [diag |-> log_to_file(d, "Data saved", "INFO", appendOk), result |-> TRUE]
    ELSE [diag |-> log_to_file(d, "Failed to save data", "ERROR", appendOk),
          result |-> FALSE]

main_after_save_embeds(saved) == [pc |-> "embed", returned |-> "none"]

\* lines 173-187: main goes on to the embedding after a save that succeeded
\* and returns None after one that failed
main_after_save(saved) ==
    IF saved THEN [pc |-> "embed", returned |-> "none"]
    ELSE [pc |-> "idle", returned |-> "None"]

\* line 173 to line 178 or 187
SaveJsonData ==
    /\ pc = "save"
    /\ \E ok \in BOOLEAN :
         LET r == save_json_data(DiagNow, ok, main_run.log_ok)
             d == IF r.result
                  THEN log_lines(r.diag,
                                 <<"CONSOLIDATED ASSIGNMENT EXTRACTION COMPLETE",
                                   "Total assigned assignments", "Total missing assignments",
                                   "Grand total assignments">>,
                                 "INFO", main_run.log_ok)
                  ELSE r.diag
         IN  /\ logged' = d.logged
             /\ _error_messages' = d.errors
             /\ main_run' = [main_run EXCEPT
                    !.saved = IF r.result THEN "ok" ELSE "failed",
                    !.saved_errors = IF r.result THEN _error_messages ELSE <<>>,
                    !.returned = main_after_save(r.result).returned]
             /\ pc' = main_after_save(r.result).pc
    /\ UNCHANGED <<course_colors_file, colors_run, runs, today, parse_call, sort_call,
                   dedup_call, points_rows, index_html, embed_call,
                   jupiter_call, scrape>>

\* ----------------------------------------------------- embed_data_in_html

\* the pieces of text the function looks for
ScriptOpen == "<script id=\"assignment-data\">"

ScriptClose == "</script>"

BodyClose == "</body>"

\* json.dumps of a piece of a text field: a double quote becomes \" and the
\* characters < > / stay as they are
json_escape(piece) ==
    IF piece = ScriptOpen THEN "<script id=\\\"assignment-data\\\">" ELSE piece

\* json.dumps(data, ensure_ascii=False), data given as the pieces of its text
\* fields in turn
json_dumps(data) ==
    <<"{">> \o [i \in DOMAIN data |-> json_escape(data[i])] \o <<"}">>

\* line 209
script_tag(data) ==
    <<ScriptOpen, "window.assignment_data = ">> \o json_dumps(data) \o <<";", ScriptClose>>

\* the positions of the closing tags after position i
closes_after(content, i) == { j \in (i + 1)..Len(content) : content[j] = ScriptClose }

\* re.search of line 213: an opening tag with a closing tag after it
has_script_tag(content) ==
    \E i \in DOMAIN content : content[i] = ScriptOpen /\ closes_after(content, i) # {}

\* re.sub of line 214 from position i on: each opening tag up to the first
\* closing tag after it (`.*?`) is replaced, the matches taken left to right
RECURSIVE sub_script_tags(_, _, _)
sub_script_tags(content, i, tag) ==
    IF i > Len(content) THEN <<>>
    ELSE IF content[i] = ScriptOpen /\ closes_after(content, i) # {}
         THEN LET c == CHOOSE x \in closes_after(content, i) :
                           \A y \in closes_after(content, i) : x <= y
              IN  tag \o sub_script_tags(content, c + 1, tag)
         ELSE <<content[i]>> \o sub_script_tags(content, i + 1, tag)

\* str.replace of line 217 from position i on: every </body> gets the tag and
\* a newline before it
RECURSIVE replace_body_close(_, _, _)
replace_body_close(content, i, tag) ==
    IF i > Len(content) THEN <<>>
    ELSE (IF content[i] = BodyClose THEN tag \o <<"\n", BodyClose>> ELSE <<content[i]>>)
         \o replace_body_close(content, i + 1, tag)

\* lines 208-218: the new content
embed_content(content, data) ==
    IF has_script_tag(content)
    THEN sub_script_tags(content, 1, script_tag(data))
    ELSE replace_body_close(content, 1, script_tag(data))

\* what reading and writing index.html do
EmbedOutcomes == {"ok", "read_failed", "write_failed"}

\* embed_data_in_html(data): the diagnostics after it and the content of
\* index.html (a write that fails is an open that fails: nothing is written)
embed_data_in_html(d, content, data, outcome, appendOk) ==
    LET d1 == log_to_file(d, "Embedding data into index.html", "INFO", appendOk)
        d2 == IF outcome = "read_failed" THEN d1
              ELSE log_to_file(d1, IF has_script_tag(content)
                                   THEN "Replaced existing embedded data in index.html"
                                   ELSE "Added embedded data to index.html",
                               "INFO", appendOk)
    IN  IF outcome = "ok"
        THEN [diag |-> log_to_file(d2, "Successfully embedded data in index.html", "INFO",
                                   appendOk),
              content |-> embed_content(content, data), result |-> TRUE]
        ELSE [diag |-> log_to_file(d2, "Failed to embed data in index.html", "ERROR",
                                   appendOk),
              content |-> content, result |-> FALSE]

\* a static document with no embedded data yet
PlainDocument == <<"<html><body>", "<h1>Homework</h1>", BodyClose, "</html>">>

\* the text fields of a payload of main(): the names of its records and its
\* error messages
payload_text(payload, errors) ==
    [i \in DOMAIN payload.assigned |-> payload.assigned[i].name]
    \o [i \in DOMAIN payload.missing |-> payload.missing[i].name]
    \o errors

\* line 184, then `return all_assignments`
EmbedDataInHtml ==
    /\ pc = "embed"
    /\ \E outcome \in EmbedOutcomes :
         LET r == embed_data_in_html(DiagNow, index_html,
                                     payload_text(main_run.payload, _error_messages),
                                     outcome, main_run.log_ok)
         IN  /\ logged' = r.diag.logged
             /\ _error_messages' = r.diag.errors
             /\ index_html' = r.content
             /\ main_run' = [main_run EXCEPT
                    !.embedded = IF r.result THEN "ok" ELSE "failed",
                    !.returned = "payload"]
    /\ pc' = "idle"
    /\ UNCHANGED <<course_colors_file, colors_run, runs, today, parse_call, sort_call,
                   dedup_call, points_rows, embed_call,
                   jupiter_call, scrape>>

\* ------------------------------------------- embed_data_in_html on its own

MaxEmbeds == 2

NoEmbed == [runs |-> 0, data |-> <<>>, result |-> FALSE, before |-> <<>>]

\* One call of embed_data_in_html.
EmbedAlone ==
    /\ embed_call.runs < MaxEmbeds
    /\ \E data \in { <<"Essay">>, <<"Lab">>, <<"Essay", ScriptClose, "Lab">>, <<BodyClose>>, <<ScriptOpen>> }, outcome \in EmbedOutcomes :
         LET r == embed_data_in_html(Diag(<<>>, _error_messages), index_html, data, outcome,
                                     TRUE)
         IN  /\ logged' = r.diag.logged
             /\ _error_messages' = r.diag.errors
             /\ index_html' = r.content
             /\ embed_call' = [runs |-> embed_call.runs + 1, data |-> data,
                               result |-> r.result, before |-> index_html]
    /\ UNCHANGED <<course_colors_file, colors_run, runs, today, parse_call, pc, main_run,
                   sort_call, dedup_call, points_rows, jupiter_call, scrape>>

\* ------------------------------------- sort_assignments_by_date on its own

MaxSortLen == 3

\* records with each kind of due_date_parsed: None, empty, canonical dates
\* (two on the same day), a date and time, raw texts, an impossible date, and
\* the raw text parse_assignment_date returns for "2024-W01-1", the last second
\* of a day
SortPool ==
    { Assignment("absent", art, PyNone, ""),
      Assignment("empty", art, PyStr(<<>>), ""),
      Assignment("jan5", art, PyStr(<<"2", "0", "2", "4", "-", "0", "1", "-", "0", "5">>), ""),
      Assignment("jan5b", Bio, PyStr(<<"2", "0", "2", "4", "-", "0", "1", "-", "0", "5">>), ""),
      Assignment("jan3", Bio, PyStr(<<"2", "0", "2", "4", "-", "0", "1", "-", "0", "3">>), ""),
      Assignment("jan5am", Bio, PyStr(<<"2", "0", "2", "4", "-", "0", "1", "-", "0", "5", "T", "0", "8", ":", "0", "0", ":", "0", "0">>), ""),
      Assignment("raw", art, PyStr(<<"T", "B", "D">>), ""),
      Assignment("rawb", art, PyStr(<<"n", "e", "x", "t", " ", "w", "e", "e", "k">>), ""),
      Assignment("feb30", art, PyStr(<<"2", "0", "2", "4", "-", "0", "2", "-", "3", "0">>), ""),
      Assignment("week1", art, PyStr(<<"2", "0", "2", "4", "-", "W", "0", "1", "-", "1">>), ""),
      Assignment("eod5", art, PyStr(<<"2", "0", "2", "4", "-", "0", "1", "-", "0", "5", "T", "2", "3", ":", "5", "9", ":", "5", "9">>), "") }

\* the lists of at most n records of the pool
RECURSIVE SortInputs(_)
SortInputs(n) ==
    IF n = 0 THEN { <<>> }
    ELSE LET shorter == SortInputs(n - 1)
         IN  shorter \cup { Append(l, r) : l \in { x \in shorter : Len(x) = n - 1 }, r \in SortPool }

NoSort == [called |-> FALSE, input |-> <<>>, output |-> <<>>]

\* One call of sort_assignments_by_date.
SortAssignmentsByDate ==
    /\ ~ sort_call.called
    /\ \E assignments \in SortInputs(MaxSortLen), appendOk \in BOOLEAN :
         LET d == log_sort_warnings(Diag(<<>>, _error_messages), assignments, 1, appendOk)
         IN  /\ sort_call' = [called |-> TRUE, input |-> assignments,
                              output |-> sort_assignments_by_date(assignments)]
             /\ logged' = d.logged
             /\ _error_messages' = d.errors
    /\ UNCHANGED <<course_colors_file, colors_run, runs, today, parse_call, pc, main_run,
                   dedup_call, points_rows, index_html, embed_call,
                   jupiter_call, scrape>>


\* ------------------------------- extract_all_assignments: the Done-tab merge

MaxDedupLen == 2

\* f"{name}::{class}"
name_class_key(assignment) == assignment.name \o <<":", ":">> \o assignment.class

\* records of the Missing and Done tabs: names X and Z of class Y, with the
\* urls a, b and the empty url
DedupPool ==
    { Assignment(name, <<"Y">>, PyNone, url) :
        name \in { <<"X">>, <<"Z">> }, url \in { <<>>, <<"a">>, <<"b">> } }

\* the lists of at most n records of the pool
RECURSIVE DedupInputs(_)
DedupInputs(n) ==
    IF n = 0 THEN { <<>> }
    ELSE LET shorter == DedupInputs(n - 1)
         IN  shorter \cup { Append(l, r) : l \in { x \in shorter : Len(x) = n - 1 }, r \in DedupPool }

primary_keys_url_only(missing) == { missing[i].url : i \in DOMAIN missing }

\* lines 775-780: seen_keys after the loop over the Missing-tab records
primary_keys(missing) ==
    { missing[i].url : i \in DOMAIN missing }
    \cup { name_class_key(missing[i]) : i \in DOMAIN missing }

\* lines 782-789: the loop over done_missing from record i on
RECURSIVE dedup_loop(_, _, _, _)
dedup_loop(done_missing, i, seen_keys, new_missing) ==
    IF i > Len(done_missing) THEN new_missing
    ELSE LET assignment     == done_missing[i]
             url_key        == assignment.url
             name_class     == name_class_key(assignment)
         IN  IF url_key \notin seen_keys /\ name_class \notin seen_keys
             THEN dedup_loop(done_missing, i + 1, seen_keys \cup {url_key, name_class},
                             Append(new_missing, assignment))
             ELSE dedup_loop(done_missing, i + 1, seen_keys, new_missing)

\* lines 773-791: new_missing (an empty done_missing adds nothing)
dedup_done(missing, done_missing) ==
    IF done_missing = <<>> THEN <<>>
    ELSE dedup_loop(done_missing, 1, primary_keys(missing), <<>>)

NoDedup == [called |-> FALSE, missing |-> <<>>, done_missing |-> <<>>,
            new_missing |-> <<>>, merged |-> <<>>]

\* The merge of the Done-tab records into the missing list.
MergeDoneMissing ==
    /\ ~ dedup_call.called
    /\ \E missing \in DedupInputs(MaxDedupLen), done_missing \in DedupInputs(MaxDedupLen) :
         LET new_missing == dedup_done(missing, done_missing)
         IN  dedup_call' = [called |-> TRUE, missing |-> missing,
                            done_missing |-> done_missing, new_missing |-> new_missing,
                            merged |-> missing \o new_missing]
    /\ UNCHANGED <<course_colors_file, _error_messages, logged, colors_run, runs, today,
                   parse_call, pc, main_run, sort_call, points_rows, index_html, embed_call,
                   jupiter_call, scrape>>

\* ------------------------------------------- max_points of the extractors

MaxRows == 2

PyInt(n) == [kind |-> "int", value |-> n]

\* int() of a run of decimal digits
RECURSIVE int_of(_)
int_of(digits) ==
    IF digits = <<>> THEN 0
    ELSE int_of(SubSeq(digits, 1, Len(digits) - 1)) * 10 + digit_value(digits[Len(digits)])

\* the last position of the run of digits that starts at position i
RECURSIVE digits_end(_, _)
digits_end(s, i) == IF isdigit(char_at(s, i + 1)) THEN digits_end(s, i + 1) ELSE i

\* re.search(r'(\d+)', text): the positions where the leftmost match starts
\* (none when there is no digit)
first_digits(text) ==
    { i \in DOMAIN text : isdigit(text[i]) /\ \A j \in 1..(i - 1) : ~ isdigit(text[j]) }

\* get_jupiter_assignments.py 266-274: max_points of a gradebook row from the
\* text of its points cell
jupiter_max_points(cell_text) ==
    LET max_points_text == str_strip(cell_text)
    IN  IF max_points_text = <<>> THEN [kind |-> "None", value |-> 0]
        ELSE IF first_digits(max_points_text) = {} THEN [kind |-> "None", value |-> 0]
        ELSE LET i == CHOOSE x \in first_digits(max_points_text) : TRUE
             IN  PyInt(int_of(SubSeq(max_points_text, i, digits_end(max_points_text, i))))

\* `(\d+)\s+[Pp]oints` matches from position i: the digits from i to the end
\* of their run, one or more spaces, then "points" or "Points"
points_match_at(text, i) ==
    /\ isdigit(char_at(text, i))
    /\ LET e == digits_end(text, i)
       IN  \E w \in after_spaces(text, e + 1) :
               /\ w > e + 1
               /\ w + 5 <= Len(text)
               /\ text[w] \in {"p", "P"}
               /\ SubSeq(text, w + 1, w + 5) = <<"o", "i", "n", "t", "s">>

\* re.search(r'(\d+)\s+[Pp]oints', text): the number captured by the leftmost
\* match, if any
points_search(text) ==
    LET starts == { i \in DOMAIN text : points_match_at(text, i) }
    IN  IF starts = {} THEN {}
        ELSE LET i == CHOOSE x \in starts : \A y \in starts : x <= y
             IN  { int_of(SubSeq(text, i, digits_end(text, i))) }

\* get_google_classroom_assignments.py 445-452: the loop over the elements
\* whose text holds "points", from element i on
RECURSIVE points_of_elements(_, _)
points_of_elements(texts, i) ==
    IF i > Len(texts) THEN 0
    ELSE LET found == points_search(str_strip(texts[i]))
         IN  IF found # {} THEN CHOOSE x \in found : TRUE
             ELSE points_of_elements(texts, i + 1)

\* extract_assignment_details: max_points of a classroom assignment;
\* navigated: the details page could be opened
gclassroom_max_points(navigated, texts) ==
    IF ~ navigated THEN PyInt(0) ELSE PyInt(points_of_elements(texts, 1))

\* A gradebook row is scraped into a record (scrape_class_assignments).
ScrapeJupiterRow ==
    /\ Len(points_rows) < MaxRows
    /\ \E cell_text \in 
           { <<>>, <<"1", "0">>, <<" ", "2", "0", " ">>, <<"5", " ", "p", "t", "s">>, <<"-", "3">>, <<"1", ".", "5">>, <<"n", "/", "a">>, <<" ", " ", " ">>, <<"0", "0", "7">> } :
         points_rows' = Append(points_rows,
                               [source |-> "jupiter", texts |-> <<cell_text>>,
                                navigated |-> TRUE,
                                max_points |-> jupiter_max_points(cell_text)])
    /\ UNCHANGED <<course_colors_file, _error_messages, logged, colors_run, runs, today,
                   parse_call, pc, main_run, sort_call, dedup_call, index_html, embed_call,
                   jupiter_call, scrape>>

\* A classroom assignment's details page is read into a record.
ExtractAssignmentDetails ==
    /\ Len(points_rows) < MaxRows
    /\ \E navigated \in BOOLEAN, texts \in 
           { <<>>, <<<<"1", "0", "0", " ", "p", "o", "i", "n", "t", "s">>>>, <<<<"p", "o", "i", "n", "t", "s", " ", "p", "o", "s", "s", "i", "b", "l", "e">>, <<"W", "o", "r", "t", "h", " ", "5", "0", " ", "P", "o", "i", "n", "t", "s">>>>,
           <<<<"1", "2", " ", "3", "4", " ", "p", "o", "i", "n", "t", "s">>, <<"1", "0", "0", " ", "p", "o", "i", "n", "t", "s">>>>, <<<<"1", "0", "0", "p", "o", "i", "n", "t", "s">>>>, <<<<"0", " ", "p", "o", "i", "n", "t", "s">>>>,
           <<<<"P", "o", "i", "n", "t", "s", ":", " ", "5">>>>, <<<<"-", "7", " ", " ", "P", "o", "i", "n", "t", "s">>>> } :
         /\ ~ navigated => texts = <<>>
         /\ points_rows' = Append(points_rows,
                                  [source |-> "gclassroom", texts |-> texts,
                                   navigated |-> navigated,
                                   max_points |-> gclassroom_max_points(navigated, texts)])
    /\ UNCHANGED <<course_colors_file, _error_messages, logged, colors_run, runs, today,
                   parse_call, pc, main_run, sort_call, dedup_call, index_html, embed_call,
                   jupiter_call, scrape>>

\* ------------------------------------------------ get_jupiter_assignments

MaxJupiterLen == 2

\* datetime.fromisoformat(text) of a text without 'Z' or offset, as a naive
\* instant; none when it raises.  A date-only text is 00:00 of its day.
fromisoformat(text) ==
    IF is_iso_datetime(text) THEN { Key(iso_ordinal(text), iso_seconds(text)) }
    ELSE IF is_iso_date(text) THEN { Key(iso_ordinal(text), 0) }
    ELSE IF is_iso_week_date(text) THEN { Key(iso_week_ordinal(text), 0) }
    ELSE {}

\* a test that also takes a due instant equal to now as missed
is_missing_at_or_before(assignment, now) ==
    LET v == assignment.due_date_parsed
    IN  IF v.kind = "None" \/ v.text = <<>> THEN [is_missing |-> TRUE, warned |-> FALSE]
        ELSE IF fromisoformat(v.text) = {} THEN [is_missing |-> TRUE, warned |-> TRUE]
        ELSE [is_missing |-> \E due \in fromisoformat(v.text) : key_le(due, now),
              warned |-> FALSE]

\* lines 609-621: is_missing of a record when datetime.now() gives `now`, and
\* whether the WARNING of line 620 is logged
is_missing_at(assignment, now) ==
    LET v == assignment.due_date_parsed
    IN  IF v.kind = "None" \/ v.text = <<>> THEN [is_missing |-> TRUE, warned |-> FALSE]
        ELSE IF fromisoformat(v.text) = {} THEN [is_missing |-> TRUE, warned |-> TRUE]
        ELSE [is_missing |-> \E due \in fromisoformat(v.text) : ~ key_le(now, due),
              warned |-> FALSE]

\* a loop that leaves out the records whose date cannot be read
RECURSIVE classify_drops_unread(_, _, _, _)
classify_drops_unread(all_assignments, nows, i, acc) ==
    IF i > Len(all_assignments) THEN acc
    ELSE LET r == is_missing_at(all_assignments[i], nows[i])
         IN  classify_drops_unread(all_assignments, nows, i + 1,
                 [assigned |-> IF r.is_missing THEN acc.assigned
                               ELSE Append(acc.assigned, all_assignments[i]),
                  missing  |-> IF r.is_missing /\ ~ r.warned
                               THEN Append(acc.missing, all_assignments[i])
                               ELSE acc.missing,
                  flags    |-> Append(acc.flags, r.is_missing),
                  diag     |-> acc.diag])

\* lines 606-627: the loop over all_assignments from record i on; nows[i] is
\* what datetime.now() gives for record i; flags holds is_missing of each
\* record
RECURSIVE classify(_, _, _, _)
classify(all_assignments, nows, i, acc) ==
    IF i > Len(all_assignments) THEN acc
    ELSE LET r == is_missing_at(all_assignments[i], nows[i])
         IN  classify(all_assignments, nows, i + 1,
                 [assigned |-> IF r.is_missing THEN acc.assigned
                               ELSE Append(acc.assigned, all_assignments[i]),
                  missing  |-> IF r.is_missing THEN Append(acc.missing, all_assignments[i])
                               ELSE acc.missing,
                  flags    |-> Append(acc.flags, r.is_missing),
                  diag     |-> IF r.warned
                               THEN log_to_file(acc.diag, "Error parsing due date", "WARNING",
                                                TRUE)
                               ELSE acc.diag])

\* test_jupiter_login(headless) by how the login goes:
\*   "chrome_failed"    webdriver.Chrome raises (line 142, before the try)
\*   "no_credentials"   none saved and none entered (line 161)
\*   "ok"               the login succeeds (line 175)
\*   "failed"           the login fails and is not retried, or the retry
\*                      fails too (line 194)
\*   "retry_ok"         the login succeeds with re-entered credentials (191)
\*   "exception"        an Exception inside the try (line 196)
\* created: a driver was created; driver: the driver is returned (else None)
test_jupiter_login(login) ==
    [created |-> login # "chrome_failed",
     driver  |-> login \in {"ok", "retry_ok"},
     raised  |-> login = "chrome_failed"]

\* get_jupiter_assignments(headless); path is how the body of the try goes:
\*   "todo_failed"     click_todo_button fails (line 557)
\*   "no_classes"      no configuration and no classes discovered (567)
\*   "cancelled"       class selection cancelled (572)
\*   "configured"      configuration saved, or not, and nothing scraped (580)
\*   "scraped"         the classes are scraped into all_assignments
\*   "exception"       an Exception in the body: the finally clause runs and
\*                     the exception goes on to the caller
\* quit: driver.quit() was called
get_jupiter_assignments(d, login, path, all_assignments, nows) ==
    LET t    == test_jupiter_login(login)
        d0   == log_to_file(d, "=== Jupiter Assignment Scraper Started ===", "INFO", TRUE)
        none == [assigned |-> <<>>, missing |-> <<>>, flags |-> <<>>]
    IN  IF t.raised
        THEN none @@ [created |-> FALSE, quit |-> FALSE, raised |-> TRUE, diag |-> d0]
        ELSE IF ~ t.driver
        THEN none @@ [created |-> t.created, quit |-> FALSE, raised |-> FALSE,
                      diag |-> log_to_file(d0, "Login failed, returning empty-handed.",
                                           "ERROR", TRUE)]
        ELSE LET c  == IF path = "scraped" /\ all_assignments # <<>>
                       THEN classify(all_assignments, nows, 1, none @@ [diag |-> d0])
                       ELSE none @@ [diag |-> d0]
             IN  [assigned |-> c.assigned, missing |-> c.missing, flags |-> c.flags,
                  created |-> TRUE, quit |-> TRUE, raised |-> path = "exception",
                  diag |-> log_to_file(c.diag, "=== Jupiter Assignment Scraper Ended ===",
                                       "INFO", TRUE)]

NoJupiter == [called |-> FALSE, login |-> "ok", path |-> "scraped", all_assignments |-> <<>>,
              nows |-> <<>>, assigned |-> <<>>, missing |-> <<>>, flags |-> <<>>,
              created |-> FALSE, quit |-> FALSE, raised |-> FALSE]

\* One call of get_jupiter_assignments: the scraped records are lists of
\* records of the pool; datetime.now() gives the noon before the day of
\* "jan5", the midnight that day begins with, or its noon, and never goes
\* back.
GetJupiterAssignments ==
    /\ ~ jupiter_call.called
    /\ \E login \in {"chrome_failed", "no_credentials", "ok", "failed", "retry_ok", "exception"} :
       \E path \in IF test_jupiter_login(login).driver
                   THEN {"todo_failed", "no_classes", "cancelled", "configured", "scraped",
                         "exception"}
                   ELSE {"scraped"} :
       \E all_assignments \in
              IF test_jupiter_login(login).driver /\ path = "scraped"
              THEN { l \in SortInputs(MaxJupiterLen) :
                       \A i \in DOMAIN l :
                           l[i].name \in {"absent", "empty", "raw", "jan3", "jan5", "jan5am",
                                          "week1"} }
              ELSE { <<>> } :
       \E nows \in { n \in [DOMAIN all_assignments ->
                              { Key(ymd2ord(2024, 1, 4), 43200), Key(ymd2ord(2024, 1, 5), 0),
                                Key(ymd2ord(2024, 1, 5), 43200) }] :
                       \A i, j \in DOMAIN n : i < j => key_le(n[i], n[j]) } :
         LET r == get_jupiter_assignments(Diag(<<>>, _error_messages), login, path,
                                          all_assignments, nows)
         IN  /\ jupiter_call' = [called |-> TRUE, login |-> login, path |-> path,
                                 all_assignments |-> all_assignments, nows |-> nows,
                                 assigned |-> r.assigned, missing |-> r.missing,
                                 flags |-> r.flags, created |-> r.created, quit |-> r.quit,
                                 raised |-> r.raised]
             /\ logged' = r.diag.logged
             /\ _error_messages' = r.diag.errors
    /\ UNCHANGED <<course_colors_file, colors_run, runs, today, parse_call, pc, main_run,
                   sort_call, dedup_call, points_rows, index_html, embed_call, scrape>>

\* ------------------------------------------------ scrape_class_assignments

MaxScrapeRows == 4

\* assignment_index + 1; every index above the largest number of rows passes
\* the test of line 252 alike, so above it only two values are kept and the
\* count goes from one to the other
next_index(assignment_index) ==
    IF assignment_index > MaxScrapeRows + 1 THEN MaxScrapeRows + 1 ELSE assignment_index + 1

\* One iteration of the `while True` of line 244.  session: the browser
\* session answers at this iteration; row: how the row at assignment_index
\* goes: "extracted" (lines 262-339), "few_cells" (line 341), "stale" (an
\* Exception from the row, handled at line 346).  A session that does not
\* answer makes find_elements raise (line 247), and the handler of line 346
\* moves to the next index and continues.
scrape_iteration(s, session, row) ==
    IF ~ session
    THEN [s EXCEPT !.alive = FALSE, !.assignment_index = next_index(@)]
    ELSE IF s.assignment_index >= s.rows
    THEN [s EXCEPT !.returned = TRUE]
    ELSE [s EXCEPT !.assignment_index = next_index(@),
                   !.assignments = IF row = "extracted" THEN Append(@, s.assignment_index)
                                   ELSE @]

\* started: the function was called; rows: the number of rows with a green
\* dot on the class page; alive: the browser session has answered so far;
\* assignments: the rows extracted, by index; returned: the function returned
\* its list
NoScrape == [started |-> FALSE, rows |-> 0, assignment_index |-> 0, alive |-> TRUE,
             assignments |-> <<>>, returned |-> FALSE]

\* scrape_class_assignments(driver, class_name) is called (lines 237-242)
ScrapeStart ==
    /\ ~ scrape.started
    /\ \E rows \in 0..MaxScrapeRows :
         scrape' = [NoScrape EXCEPT !.started = TRUE, !.rows = rows]
    /\ logged' = log_to_file(Diag(<<>>, _error_messages), "Scraping assignments", "INFO",
                             TRUE).logged
    /\ UNCHANGED <<course_colors_file, _error_messages, colors_run, runs, today, parse_call,
                   pc, main_run, sort_call, dedup_call, points_rows, index_html, embed_call,
                   jupiter_call>>

\* One iteration of the loop; a session that stopped answering does not come
\* back.  logged holds the line of this iteration.
ScrapeIteration ==
    /\ scrape.started /\ ~ scrape.returned
    /\ \E session \in IF scrape.alive THEN BOOLEAN ELSE {FALSE},
          row \in {"extracted", "few_cells", "stale"} :
         scrape' = scrape_iteration(scrape, session, row)
    /\ logged' = log_to_file(Diag(<<>>, _error_messages), "assignment processed", "INFO",
                             TRUE).logged
    /\ UNCHANGED <<course_colors_file, _error_messages, colors_run, runs, today, parse_call,
                   pc, main_run, sort_call, dedup_call, points_rows, index_html, embed_call,
                   jupiter_call>>

\* ---------------------------------------------------------- specifications

\* the allocator on its own, from the persisted maps of InitialFiles
InitColors ==
    /\ course_colors_file \in InitialFiles
    /\ _error_messages = <<>>
    /\ logged = <<>>
    /\ colors_run = NoRun
    /\ runs = 0
    /\ today = FirstDay
    /\ parse_call = NoCall
    /\ pc = "idle"
    /\ main_run = NoMain
    /\ sort_call = NoSort
    /\ dedup_call = NoDedup
    /\ points_rows = <<>>
    /\ index_html = PlainDocument
    /\ embed_call = NoEmbed
    /\ jupiter_call = NoJupiter
    /\ scrape = NoScrape

SpecColors == InitColors /\ [][(UpdateCourseColors)]_vars

\* the date parser on its own, on each text, bias and day
InitDate ==
    /\ course_colors_file = FileOf("absent", EmptyMap)
    /\ _error_messages = <<>>
    /\ logged = <<>>
    /\ colors_run = NoRun
    /\ runs = 0
    /\ today \in (FirstDay..(FirstDay + NumDays - 1))
    /\ parse_call = NoCall
    /\ pc = "idle"
    /\ main_run = NoMain
    /\ sort_call = NoSort
    /\ dedup_call = NoDedup
    /\ points_rows = <<>>
    /\ index_html = PlainDocument
    /\ embed_call = NoEmbed
    /\ jupiter_call = NoJupiter
    /\ scrape = NoScrape

SpecDate == InitDate /\ [][(ParseAssignmentDate)]_vars

\* the persisted maps a main() run may find
MainInitialFiles ==
    { FileOf("absent", EmptyMap), FileOf("nonobject", EmptyMap), ObjectFile(OldMap(1..15)) }

InitMain ==
    /\ course_colors_file \in MainInitialFiles
    /\ _error_messages = <<>>
    /\ logged = <<>>
    /\ colors_run = NoRun
    /\ runs = 0
    /\ today = FirstDay
    /\ parse_call = NoCall
    /\ pc = "idle"
    /\ main_run = NoMain
    /\ sort_call = NoSort
    /\ dedup_call = NoDedup
    /\ points_rows = <<>>
    /\ index_html = PlainDocument
    /\ embed_call = NoEmbed
    /\ jupiter_call = NoJupiter
    /\ scrape = NoScrape

NextMain ==
    \/ MainStart
    \/ ExtractGoogleClassroom
    \/ ExtractJupiter
    \/ Consolidate
    \/ SaveJsonData
    \/ EmbedDataInHtml

\* runs of main(), one after the other
SpecMain == InitMain /\ [][NextMain]_vars

\* every variable as the process starts, index.html with the content given
Idle(content) ==
    /\ course_colors_file = FileOf("absent", EmptyMap)
    /\ _error_messages = <<>>
    /\ logged = <<>>
    /\ colors_run = NoRun
    /\ runs = 0
    /\ today = FirstDay
    /\ parse_call = NoCall
    /\ pc = "idle"
    /\ main_run = NoMain
    /\ sort_call = NoSort
    /\ dedup_call = NoDedup
    /\ points_rows = <<>>
    /\ index_html = content
    /\ embed_call = NoEmbed
    /\ jupiter_call = NoJupiter
    /\ scrape = NoScrape

\* the process before any call, index.html without embedded data
InitIdle == Idle(PlainDocument)

\* the sorter on its own, on each list of SortInputs
SpecSort == InitIdle /\ [][SortAssignmentsByDate]_vars

\* the Done-tab merge on its own, on each pair of lists of DedupInputs
SpecDedup == InitIdle /\ [][MergeDoneMissing]_vars

NextPoints ==
    \/ ScrapeJupiterRow
    \/ ExtractAssignmentDetails

\* the extractors building records, one row or details page at a time
SpecPoints == InitIdle /\ [][NextPoints]_vars

\* embed_data_in_html on its own, run after run on the same document; the
\* documents found at the first embedding: with no data yet, and with the
\* data of an earlier run
SpecEmbed ==
    /\ \E content \in { PlainDocument, embed_content(PlainDocument, <<"Quiz">>) } : Idle(content)
    /\ [][EmbedAlone]_vars

\* get_jupiter_assignments on its own
SpecJupiter == InitIdle /\ [][GetJupiterAssignments]_vars

NextScrape ==
    \/ ScrapeStart
    \/ ScrapeIteration

\* scrape_class_assignments on its own; the interpreter keeps executing, so a
\* step that can be taken is taken
SpecScrape == InitIdle /\ [][NextScrape]_vars /\ WF_vars(NextScrape)

\* the allocator run after run from no persisted map, on many courses
SpecFresh == InitIdle /\ [][UpdateManyCourses]_vars

\* ------------------------------------------------- claims: color allocator

ColorsRan == colors_run.outcome # "none"

\* the numeric suffixes of the bindings of a mapping
SuffixesOf(mapping) == { mapping[c].num : c \in DOMAIN mapping }

\* C2: a binding of the persisted map that a run read is still there, with the
\* same slot, in the map the file holds after the run, whether or not the
\* payload of the run contains the course.
ColorBindingStable ==
    (ColorsRan /\ colors_run.pre.kind = "object" /\ course_colors_file.kind = "object")
    => \A c \in DOMAIN colors_run.pre.map :
           /\ c \in DOMAIN course_colors_file.map
           /\ course_colors_file.map[c] = colors_run.pre.map[c]

\* C2 witness: a run that allocated a slot and wrote the map, while a course
\* bound by an earlier run was not in its payload.
ColorBindingStableWitness ==
    /\ colors_run.outcome = "written"
    /\ colors_run.pre.kind = "object"
    /\ Len(colors_run.allocs) > 0
    /\ \E c \in Courses \cap DOMAIN colors_run.pre.map : c \notin Range(colors_run.classes)

\* C3: a run given the same class names as the run before it, both of which
\* wrote the map, leaves the file as the first run left it.
ColorAllocationIdempotent ==
    (colors_run.repeat /\ colors_run.outcome = "written")
    => course_colors_file = colors_run.pre

\* C3 witness: a second run on the same two or more courses.
ColorAllocationIdempotentWitness ==
    /\ colors_run.repeat
    /\ colors_run.outcome = "written"
    /\ Len(colors_run.classes) >= 2

\* C4: the map a run writes is determined by the file it found and the set of
\* class names, whatever the iteration order of the set, and the classes are
\* processed in case-insensitive alphabetical order.
ColorAllocationDeterministic ==
    colors_run.outcome = "written"
    => /\ \A o \in Orders(Range(colors_run.classes)) :
              reconcile(colors_run.pre, o).mapping = course_colors_file.map
       /\ \A i, j \in DOMAIN colors_run.classes :
              i < j => ~ str_lt(str_lower(colors_run.classes[j]),
                                str_lower(colors_run.classes[i]))

\* C5: every class absent from the loaded map is allocated a slot, and each
\* allocation made while some number of 1..15 is free takes the lowest number
\* that is not the suffix of a binding of the mapping at that moment.
LowestUnusedAllocated ==
    (ColorsRan /\ colors_run.outcome # "load_error")
    => /\ \A c \in Range(colors_run.classes) :
              c \notin DOMAIN load_mapping(colors_run.pre).mapping
              => \E i \in DOMAIN colors_run.allocs : colors_run.allocs[i].cname = c
       /\ \A i \in DOMAIN colors_run.allocs :
              LET a    == colors_run.allocs[i]
                  free == (1..15) \ SuffixesOf(a.at)
              IN  /\ a.cname \notin DOMAIN a.at
                  /\ free # {} => (a.n \in free /\ \A m \in free : a.n <= m)
                  /\ colors_run.outcome = "written"
                     => course_colors_file.map[a.cname] = SlotLabel(a.n)

\* C5 witness: the second allocation of a run fills a gap below a used slot.
LowestUnusedAllocatedWitness ==
    /\ colors_run.outcome = "written"
    /\ Len(colors_run.allocs) = 2
    /\ colors_run.allocs[2].n > 1
    /\ \E m \in SuffixesOf(colors_run.allocs[2].at) : m > colors_run.allocs[2].n

\* C6: an allocation made when 1..15 are all used yields slot 1; no allocation
\* yields a number outside 1..15, and the loop ends within 15 iterations.
PaletteWraps ==
    \A i \in DOMAIN colors_run.allocs :
        LET a == colors_run.allocs[i]
        IN  /\ (1..15) \subseteq SuffixesOf(a.at) => a.n = 1
            /\ a.n \in 1..15
            /\ a.steps \in 1..15

\* C6 witness: two courses allocated in one run with all 15 slots used (the
\* 16th and the 17th binding), both written with slot 1.
PaletteWrapsWitness ==
    /\ colors_run.outcome = "written"
    /\ Len(colors_run.allocs) >= 2
    /\ \A i \in 1..2 :
           /\ (1..15) \subseteq SuffixesOf(colors_run.allocs[i].at)
           /\ course_colors_file.map[colors_run.allocs[i].cname] = SlotLabel(1)

\* ---------------------------------------------------- claims: date parser

ParsedText == parse_call.called /\ parse_call.date_str.kind = "str"

CallText == parse_call.date_str.text

CallLower == str_lower(str_strip(CallText))

\* the result is a canonical YYYY-MM-DD text
ResultIsDate == parse_call.result.kind = "str" /\ is_iso_date(parse_call.result.text)

ResultDay == iso_ordinal(parse_call.result.text)

\* the text is empty, is "Unknown" or "No due date", or contains "posted",
\* "no due date" or "unknown" in any letter case
SentinelText(text) ==
    \/ text = <<>>
    \/ text = <<"U", "n", "k", "n", "o", "w", "n">>
    \/ text = <<"N", "o", " ", "d", "u", "e", " ", "d", "a", "t", "e">>
    \/ contains(str_lower(text), <<"p", "o", "s", "t", "e", "d">>)
    \/ contains(str_lower(text), <<"n", "o", " ", "d", "u", "e", " ", "d", "a", "t", "e">>)
    \/ contains(str_lower(text), <<"u", "n", "k", "n", "o", "w", "n">>)

\* the offsets of the relative-day keywords the text contains
RelativeOffsets(text) ==
    (IF contains(str_lower(text), kw_today) THEN {0} ELSE {})
    \cup (IF contains(str_lower(text), kw_yesterday) THEN {0 - 1} ELSE {})
    \cup (IF contains(str_lower(text), kw_tomorrow) THEN {1} ELSE {})

\* the weekdays (0 = Monday) whose full names the text contains
NamedWeekdays(text) == { k \in 0..6 : contains(str_lower(text), weekdays[k + 1]) }

\* a text the weekday rule is about: not a sentinel, no relative-day keyword,
\* no month name, no date-shaped number, and a weekday name
WeekdayOnlyText(text) ==
    /\ ~ SentinelText(text)
    /\ RelativeOffsets(text) = {}
    /\ ~ has_month(str_lower(str_strip(text)))
    /\ ~ has_date_numbers(str_lower(str_strip(text)))
    /\ NamedWeekdays(text) # {}

\* C7: a call on a sentinel text returns None, with either bias, whatever
\* else the text contains.
SentinelShortCircuit ==
    (ParsedText /\ SentinelText(CallText))
    => (parse_call.result = PyNone /\ ~ parse_call.warned)

\* C7 witness: a past-biased call on a sentinel text that also holds a
\* relative-day keyword or a weekday name ("posted today", "Posted Monday").
SentinelShortCircuitWitness ==
    /\ ParsedText /\ parse_call.is_missing
    /\ CallText # <<>> /\ SentinelText(CallText)
    /\ (RelativeOffsets(CallText) # {} \/ NamedWeekdays(CallText) # {})
    /\ parse_call.result = PyNone

\* C8: a call on a text that is no sentinel and contains "today", "yesterday"
\* or "tomorrow" returns the YYYY-MM-DD of today plus the offset of a keyword
\* it contains (0, -1, +1), with either bias, whatever else the text contains.
RelativeDayPrecedence ==
    (ParsedText /\ ~ SentinelText(CallText) /\ RelativeOffsets(CallText) # {})
    => /\ ResultIsDate
       /\ \E off \in RelativeOffsets(CallText) : ResultDay = today + off

\* C8 witness: "tomorrow" wins over a date-shaped number, and "yesterday" over
\* a weekday name.
RelativeDayPrecedenceWitness ==
    /\ ParsedText /\ ~ SentinelText(CallText)
    /\ ResultIsDate
    /\ \/ RelativeOffsets(CallText) = {1} /\ has_date_numbers(CallLower)
          /\ ResultDay = today + 1 /\ parse_call.is_missing
       \/ RelativeOffsets(CallText) = {0 - 1} /\ NamedWeekdays(CallText) # {}
          /\ ResultDay = today - 1 /\ ~ parse_call.is_missing

\* C9: a past-biased call on a weekday-only text returns a date from today-7
\* to today-1 that falls on a named weekday; it is today-7 when the one named
\* weekday is today's.
PastBiasedWeekday ==
    (ParsedText /\ WeekdayOnlyText(CallText) /\ parse_call.is_missing)
    => /\ ResultIsDate
       /\ today - 7 <= ResultDay /\ ResultDay <= today - 1
       /\ weekday_of(ResultDay) \in NamedWeekdays(CallText)
       /\ NamedWeekdays(CallText) = {weekday_of(today)} => ResultDay = today - 7

\* C9 witness: the named weekday is today's and the result is a week back.
PastBiasedWeekdayWitness ==
    /\ ParsedText /\ WeekdayOnlyText(CallText) /\ parse_call.is_missing
    /\ NamedWeekdays(CallText) = {weekday_of(today)}
    /\ ResultIsDate /\ ResultDay = today - 7

\* C10: a future-biased call on a weekday-only text returns a date from
\* today+1 to today+7 that falls on a named weekday; it is today+7 when the
\* one named weekday is today's.
FutureBiasedWeekday ==
    (ParsedText /\ WeekdayOnlyText(CallText) /\ ~ parse_call.is_missing)
    => /\ ResultIsDate
       /\ today + 1 <= ResultDay /\ ResultDay <= today + 7
       /\ weekday_of(ResultDay) \in NamedWeekdays(CallText)
       /\ NamedWeekdays(CallText) = {weekday_of(today)} => ResultDay = today + 7

\* C10 witness: the named weekday is today's and the result is a week ahead.
FutureBiasedWeekdayWitness ==
    /\ ParsedText /\ WeekdayOnlyText(CallText) /\ ~ parse_call.is_missing
    /\ NamedWeekdays(CallText) = {weekday_of(today)}
    /\ ResultIsDate /\ ResultDay = today + 7

\* the text contains a month name, full or 3-letter, in any letter case
ContainsMonthName(text) == \E i \in DOMAIN MonthNames : contains(str_lower(text), MonthNames[i])

\* the same call with the other bias
OtherBiasCall == parse_assignment_date(parse_call.date_str, ~ parse_call.is_missing, today)

\* C11: the weekday rule makes the result only for a text with no month name
\* and no date-shaped number; when another rule makes it, the call with the
\* other bias gives the same outcome.
WeekdayGuardBiasIndependent ==
    ParsedText
    => /\ parse_call.rule = "weekday"
          => (~ ContainsMonthName(CallText) /\ ~ has_date_numbers(CallLower))
       /\ parse_call.rule # "weekday"
          => /\ OtherBiasCall.result = parse_call.result
             /\ OtherBiasCall.raised = parse_call.raised
             /\ OtherBiasCall.warned = parse_call.warned

\* C11 witness: a past-biased call on a text with a weekday name and a month
\* name ("Monday, March 5"), or with a weekday name and a date-shaped number
\* ("Friday 3/5"), answered by the general parser.
WeekdayGuardBiasIndependentWitness ==
    /\ ParsedText /\ parse_call.is_missing
    /\ NamedWeekdays(CallText) # {}
    /\ ContainsMonthName(CallText) \/ has_date_numbers(CallLower)
    /\ parse_call.rule = "parser" /\ ResultIsDate
    /\ ResultDay = ymd2ord(ord2ymd(today).y, 3, 5)

\* the general parser was reached and failed
ParserFailed ==
    /\ ParsedText /\ ~ SentinelText(CallText) /\ RelativeOffsets(CallText) = {}
    /\ parse_call.rule \in {"parser", "fallback"}
    /\ dateutil_parse(str_strip(CallText), today) = {}

\* C12: when the general parser fails, the call returns the input text as it
\* was given, logs a WARNING and raises nothing.
RawFallback ==
    ParserFailed
    => /\ ~ parse_call.raised
       /\ parse_call.result = parse_call.date_str
       /\ parse_call.warned
       /\ parse_call.log_ok => logged = <<<<"WARNING", "Could not parse date">>>>

\* C12, the part that holds: the same, for the failures the library reports
\* as ValueError.
RawFallbackOnValueError ==
    (ParserFailed /\ ~ dateutil_overflows(str_strip(CallText)))
    => /\ ~ parse_call.raised
       /\ parse_call.result = parse_call.date_str
       /\ parse_call.warned
       /\ parse_call.log_ok => logged = <<<<"WARNING", "Could not parse date">>>>

\* a text with spaces around it came back with them
RawFallbackOnValueErrorWitness ==
    /\ ParserFailed /\ ~ parse_call.raised
    /\ str_strip(CallText) # CallText
    /\ parse_call.result = parse_call.date_str

\* ---------------------------------------------------- claims: orchestrator

\* main() has run to its end
MainDone == pc = "idle" /\ main_run.started

\* t lists the elements of s, each as many times as s does
IsPermutation(s, t) ==
    /\ Len(s) = Len(t)
    /\ \A x \in Range(s) \cup Range(t) :
           Cardinality({ i \in DOMAIN s : s[i] = x }) = Cardinality({ i \in DOMAIN t : t[i] = x })

\* exactly one of the two extractors raised; `other` is what the other returned
OneSourceRaised(other) ==
    \/ main_run.gclassroom.raised /\ ~ main_run.jupiter.raised /\ other = main_run.jupiter
    \/ main_run.jupiter.raised /\ ~ main_run.gclassroom.raised /\ other = main_run.gclassroom

\* C1: when exactly one extractor raised, the run built a payload whose lists
\* hold the records of the other source and no others, no exception left
\* main, and the payload's errors array is not empty.
OrchestratorResilience ==
    \A other \in GclassroomResults \cup JupiterResults :
        (MainDone /\ OneSourceRaised(other))
        => /\ main_run.payload.built
           /\ IsPermutation(other.assigned, main_run.payload.assigned)
           /\ IsPermutation(other.missing, main_run.payload.missing)
           /\ ~ main_run.escaped
           /\ _error_messages # <<>>

\* C1, the part that holds: the same, for the runs during which LOGFILE can
\* be appended to.
OrchestratorResilienceLogged ==
    \A other \in GclassroomResults \cup JupiterResults :
        (MainDone /\ OneSourceRaised(other) /\ main_run.log_ok)
        => /\ main_run.payload.built
           /\ IsPermutation(other.assigned, main_run.payload.assigned)
           /\ IsPermutation(other.missing, main_run.payload.missing)
           /\ ~ main_run.escaped
           /\ _error_messages # <<>>

\* the gradebook extractor raised and the classroom records were saved
OrchestratorResilienceLoggedWitness ==
    /\ MainDone /\ main_run.log_ok
    /\ main_run.jupiter.raised /\ ~ main_run.gclassroom.raised
    /\ Len(main_run.payload.assigned) = 2
    /\ main_run.saved = "ok" /\ main_run.saved_errors # <<>>

\* C17: the consolidated lists hold what the two sources gave, list by list,
\* each record as many times as the sources gave it.
ConsolidationConserves ==
    main_run.payload.built
    => /\ IsPermutation(main_run.gclassroom.assigned \o main_run.jupiter.assigned,
                        main_run.payload.assigned)
       /\ IsPermutation(main_run.gclassroom.missing \o main_run.jupiter.missing,
                        main_run.payload.missing)

\* C17 witness: both sources gave a missing record with the same url, name
\* and class, and both are in the payload.
ConsolidationConservesWitness ==
    /\ main_run.payload.built
    /\ ~ main_run.gclassroom.raised /\ ~ main_run.jupiter.raised
    /\ main_run.gclassroom.missing = <<gTwin>> /\ main_run.jupiter.missing = <<jEssay>>
    /\ main_run.payload.missing = <<gTwin, jEssay>>
    /\ Len(main_run.payload.assigned) = 3

\* C19: a payload save that failed made main return None with nothing raised
\* and nothing embedded; an embedding was attempted only after a save that
\* succeeded.
PayloadWriteFailureReported ==
    /\ main_run.saved = "failed"
       => /\ main_run.embedded = "none" /\ ~ main_run.escaped
          /\ pc = "idle" /\ main_run.returned = "None"
    /\ (main_run.embedded # "none" \/ pc = "embed") => main_run.saved = "ok"

\* C19 witness: a run ended by a failed save, the message collected.
PayloadWriteFailureReportedWitness ==
    /\ MainDone /\ main_run.payload.built
    /\ main_run.saved = "failed" /\ main_run.returned = "None"
    /\ main_run.embedded = "none"
    /\ _error_messages # <<>>

\* ----------------------------------------------------------- claims: sorter

\* the record's due_date_parsed is absent, empty, or a text that is neither
\* a YYYY-MM-DD date nor a date and time: what parse_assignment_date returns
\* when it finds no date
NonCanonical(assignment) ==
    LET v == assignment.due_date_parsed
    IN  \/ v.kind = "None"
        \/ v.text = <<>>
        \/ ~ is_iso_date(v.text) /\ ~ is_iso_datetime(v.text)

\* C13: in the sorted list no non-canonical record comes before a record with
\* a valid date, and the non-canonical records are in their input order.
NonCanonicalSortLast ==
    sort_call.called
    => /\ \A i, j \in DOMAIN sort_call.output :
              (i < j /\ NonCanonical(sort_call.output[i]))
              => NonCanonical(sort_call.output[j])
       /\ SelectSeq(sort_call.output, NonCanonical) = SelectSeq(sort_call.input, NonCanonical)

\* the ISO parse of the sort key fails on the record, or has nothing to read
ReparseFails(assignment) == get_sort_key(assignment).key = datetime_max

\* C13, the part that holds: the same, for the records on which the ISO parse
\* of the sort key fails.
ReparseFailureSortLast ==
    sort_call.called
    => /\ \A i, j \in DOMAIN sort_call.output :
              (i < j /\ ReparseFails(sort_call.output[i]))
              => ReparseFails(sort_call.output[j])
       /\ SelectSeq(sort_call.output, ReparseFails) = SelectSeq(sort_call.input, ReparseFails)

\* a raw text and an absent date given before a valid date end up after it,
\* the raw text still first of the two
ReparseFailureSortLastWitness ==
    /\ sort_call.called /\ Len(sort_call.input) = 3
    /\ sort_call.input[1].name = "raw" /\ sort_call.input[2].name = "absent"
    /\ sort_call.input[3].name = "jan5"
    /\ sort_call.output[1].name = "jan5" /\ sort_call.output[2].name = "raw"
    /\ sort_call.output[3].name = "absent"

\* the records of the list that have the key of the record given
WithKeyOf(assignment, list) ==
    SelectSeq(list, LAMBDA x : get_sort_key(x).key = get_sort_key(assignment).key)

DedupSound ==
    dedup_call.called
    => \A i \in DOMAIN dedup_call.new_missing, j \in DOMAIN dedup_call.missing :
           /\ dedup_call.new_missing[i].url # dedup_call.missing[j].url
           /\ ~ (/\ dedup_call.new_missing[i].name = dedup_call.missing[j].name
                 /\ dedup_call.new_missing[i].class = dedup_call.missing[j].class)

\* C15 witness: the Missing tab holds X of class Y at url a; of the Done-tab
\* records, the one at url a is left out and Z at url b is added.
DedupSoundWitness ==
    /\ dedup_call.called
    /\ dedup_call.missing = <<Assignment(<<"X">>, <<"Y">>, PyNone, <<"a">>)>>
    /\ dedup_call.done_missing = <<Assignment(<<"Z">>, <<"Y">>, PyNone, <<"a">>),
                                   Assignment(<<"Z">>, <<"Y">>, PyNone, <<"b">>)>>
    /\ dedup_call.new_missing = <<Assignment(<<"Z">>, <<"Y">>, PyNone, <<"b">>)>>
    /\ dedup_call.merged = dedup_call.missing \o dedup_call.new_missing

\* the identity keys of the Missing-tab records: the urls that are not empty
\* and the name::class composites
PrimaryKeys ==
    { dedup_call.missing[i].url : i \in { k \in DOMAIN dedup_call.missing :
                                              dedup_call.missing[k].url # <<>> } }
    \cup { name_class_key(dedup_call.missing[i]) : i \in DOMAIN dedup_call.missing }

\* neither key of the Done-tab record is a key of a Missing-tab record
NotInPrimary(assignment) ==
    /\ assignment.url = <<>> \/ assignment.url \notin PrimaryKeys
    /\ name_class_key(assignment) \notin PrimaryKeys

\* C16: the records added are the Done-tab records with no key among the
\* Missing-tab records' keys, in Done-tab order.
DedupExact ==
    dedup_call.called
    => dedup_call.new_missing = SelectSeq(dedup_call.done_missing, NotInPrimary)

\* ------------------------------------------------------- claims: max_points

\* the points of the row are unknown: nothing to read them from
PointsUnknown(row) ==
    IF row.source = "jupiter"
    THEN first_digits(str_strip(row.texts[1])) = {}
    ELSE ~ row.navigated
         \/ \A i \in DOMAIN row.texts : points_search(str_strip(row.texts[i])) = {}

\* C18: every record built has an integer max_points that is not negative,
\* and 0 when the points are unknown.
MaxPointsNonNegativeInteger ==
    \A i \in DOMAIN points_rows :
        /\ points_rows[i].max_points.kind = "int"
        /\ points_rows[i].max_points.value >= 0
        /\ PointsUnknown(points_rows[i]) => points_rows[i].max_points.value = 0

\* C18, the part that holds: the same, for the classroom records.
MaxPointsNonNegativeIntegerClassroom ==
    \A i \in DOMAIN points_rows :
        points_rows[i].source = "gclassroom"
        => /\ points_rows[i].max_points.kind = "int"
           /\ points_rows[i].max_points.value >= 0
           /\ PointsUnknown(points_rows[i]) => points_rows[i].max_points.value = 0

\* ------------------------------------------------------------ claims: embed

\* the number of opening tags of the embedded data in the document
ScriptTagCount == Cardinality({ i \in DOMAIN index_html : index_html[i] = ScriptOpen })

\* the document holds the tag of the data somewhere
HoldsTag(content, data) ==
    \E i \in DOMAIN content :
        /\ i + Len(script_tag(data)) - 1 <= Len(content)
        /\ SubSeq(content, i, i + Len(script_tag(data)) - 1) = script_tag(data)

\* C20: after an embedding the document has one tag, the tag holds the data
\* of that run, and embedding the same data again changes nothing.
IdempotentEmbed ==
    (embed_call.runs > 0 /\ embed_call.result)
    => /\ ScriptTagCount = 1
       /\ HoldsTag(index_html, embed_call.data)
       /\ embed_content(index_html, embed_call.data) = index_html

\* C20, the part that holds: the same, when no text field of the data holds
\* a closing script tag.
IdempotentEmbedPlainData ==
    (embed_call.runs > 0 /\ embed_call.result
     /\ \A i \in DOMAIN embed_call.data : embed_call.data[i] # ScriptClose)
    => /\ ScriptTagCount = 1
       /\ HoldsTag(index_html, embed_call.data)
       /\ embed_content(index_html, embed_call.data) = index_html

\* ------------------------------------------- claims: the persisted map file

\* the levels of the lines the last call logged
LoggedLevels == { logged[i][1] : i \in DOMAIN logged }

\* the run allocated a slot for each of its classes from an empty map and
\* wrote that map
RebuiltFromEmpty ==
    /\ colors_run.outcome = "written"
    /\ course_colors_file
         = ObjectFile(allocate(colors_run.classes, 1, EmptyMap, {}, <<>>).mapping)
    /\ DOMAIN course_colors_file.map = Range(colors_run.classes)

\* the save of the run did not fail for a reason of its own
SaveNotFailed == colors_run.outcome \notin {"none", "open_failed", "dump_failed"}

\* C21: a run that finds the map file corrupt (not JSON, or JSON that is not
\* an object) rebuilds the map from empty, writes it, and logs a WARNING and
\* no ERROR.
CorruptMapTreatedAsEmpty ==
    (SaveNotFailed /\ colors_run.pre.kind \in {"invalid", "nonobject"})
    => /\ RebuiltFromEmpty
       /\ "ERROR" \notin LoggedLevels

\* C21, the part that holds: the same for a file that is not JSON, with the
\* WARNING; and for JSON that is falsy (null, [], "", 0), without one.
UnreadableMapTreatedAsEmpty ==
    (SaveNotFailed /\ colors_run.pre.kind \in {"invalid", "falsy"})
    => /\ RebuiltFromEmpty
       /\ "ERROR" \notin LoggedLevels
       /\ colors_run.pre.kind = "invalid" => "WARNING" \in LoggedLevels

\* C26: after a run, whatever happened to the save, the file holds the whole
\* map the run found or the whole map the run built.
AtomicWriteBack ==
    ColorsRan
    => \/ course_colors_file = colors_run.pre
       \/ (colors_run.outcome = "written" /\ course_colors_file.kind = "object")

\* C26, the part that holds: a save that fails before the file is opened for
\* writing leaves the file as the run found it.
FailedOpenKeepsMap ==
    colors_run.outcome = "open_failed" => course_colors_file = colors_run.pre

\* ---------------------------------------------- claims: the errors array

\* the messages of the ERROR-level lines, in the order logged
RECURSIVE ErrorMessagesOf(_)
ErrorMessagesOf(lines) ==
    IF lines = <<>> THEN <<>>
    ELSE (IF Head(lines)[1] = "ERROR" THEN <<Head(lines)[2]>> ELSE <<>>)
         \o ErrorMessagesOf(Tail(lines))

\* C24: during and after a run of main() the collector, which is the errors
\* array of the run's payload, holds messages of ERROR-level lines of this
\* run only, in the order logged; the errors written with the payload are
\* the first of them.
ErrorsOfThisRunOnly ==
    main_run.started
    => /\ _error_messages = ErrorMessagesOf(logged)
       /\ main_run.saved = "ok"
          => SubSeq(_error_messages, 1, Len(main_run.saved_errors)) = main_run.saved_errors

\* C24 witness: main() was called with messages of an earlier run in the
\* collector; this run logged a WARNING and one ERROR, and its payload was
\* written with that one error.
ErrorsOfThisRunOnlyWitness ==
    /\ main_run.stale /\ main_run.saved = "ok"
    /\ Len(main_run.saved_errors) = 1
    /\ \E i \in DOMAIN logged : logged[i][1] = "WARNING"
    /\ _error_messages = main_run.saved_errors

\* an ERROR-level call made so far in the run of main(), by its message
ErrorCalls ==
    (IF main_run.gclassroom.raised
     THEN {"Error extracting Google Classroom assignments"} ELSE {})
    \cup (IF main_run.jupiter.raised THEN {"Error extracting Jupiter assignments"} ELSE {})
    \cup (IF main_run.saved = "failed" THEN {"Failed to save data"} ELSE {})

\* C25: every ERROR-level call of the run has its message in the collector,
\* whether or not the log file can be appended to.
ErrorCollectionNeedsNoLogFile ==
    main_run.started => ErrorCalls \subseteq Range(_error_messages)

\* C25, the part that holds: the same while the log file can be appended to.
ErrorCollectionWithLogFile ==
    (main_run.started /\ main_run.log_ok) => ErrorCalls \subseteq Range(_error_messages)

\* --------------------------------------------- claims: the end-of-day key

\* the record's due_date_parsed is a date-only YYYY-MM-DD text
DateOnly(assignment) ==
    assignment.due_date_parsed.kind = "str" /\ is_iso_date(assignment.due_date_parsed.text)

\* the record's due_date_parsed is a YYYY-MM-DDTHH:MM:SS text
Timestamp(assignment) ==
    assignment.due_date_parsed.kind = "str"
    /\ is_iso_datetime(assignment.due_date_parsed.text)

\* the day of a date-only or timestamp record
DayOf(assignment) == iso_ordinal(assignment.due_date_parsed.text)

\* in the sorted list the date-only record at i comes before every record
\* dated on a later day
BeforeLaterDays(i) ==
    \A j \in DOMAIN sort_call.output :
        ((DateOnly(sort_call.output[j]) \/ Timestamp(sort_call.output[j]))
         /\ DayOf(sort_call.output[j]) > DayOf(sort_call.output[i]))
        => i < j

CountIn(list, r) == Cardinality({ i \in DOMAIN list : list[i] = r })

\* the first list is the second with some records left out
RECURSIVE IsSubsequence(_, _)
IsSubsequence(sub, list) ==
    IF sub = <<>> THEN TRUE
    ELSE IF list = <<>> THEN FALSE
    ELSE IF Head(sub) = Head(list) THEN IsSubsequence(Tail(sub), Tail(list))
    ELSE IsSubsequence(sub, Tail(list))

\* C22: each scraped record is in the assigned list or in the missing list,
\* as many times in the two together as it was scraped, the lists hold
\* nothing else, and each list is in scrape order.
GradebookPartition ==
    (jupiter_call.called /\ ~ jupiter_call.raised)
    => /\ \A r \in Range(jupiter_call.all_assignments) \cup Range(jupiter_call.assigned)
                   \cup Range(jupiter_call.missing) :
              CountIn(jupiter_call.all_assignments, r)
              = CountIn(jupiter_call.assigned, r) + CountIn(jupiter_call.missing, r)
       /\ IsSubsequence(jupiter_call.assigned, jupiter_call.all_assignments)
       /\ IsSubsequence(jupiter_call.missing, jupiter_call.all_assignments)

\* C22 witness: two records scraped, a raw text and a date still to come,
\* the first returned as missing (with its WARNING) and the second as
\* assigned.
GradebookPartitionWitness ==
    /\ jupiter_call.called /\ Len(jupiter_call.all_assignments) = 2
    /\ jupiter_call.all_assignments[1].name = "raw"
    /\ jupiter_call.all_assignments[2].name = "jan5"
    /\ jupiter_call.missing = <<jupiter_call.all_assignments[1]>>
    /\ jupiter_call.assigned = <<jupiter_call.all_assignments[2]>>
    /\ \E i \in DOMAIN logged : logged[i][1] = "WARNING"

\* the instant of a date-only or timestamp record, a date-only one at 00:00
DueInstant(assignment) ==
    Key(DayOf(assignment),
        IF Timestamp(assignment) THEN iso_seconds(assignment.due_date_parsed.text) ELSE 0)

\* the rule of the claim: absent, not an ISO date or timestamp, or due
\* strictly before now
MissingByRule(assignment, now) ==
    \/ assignment.due_date_parsed.kind = "None"
    \/ assignment.due_date_parsed.text = <<>>
    \/ ~ (DateOnly(assignment) \/ Timestamp(assignment))
    \/ (DueInstant(assignment) # now /\ key_le(DueInstant(assignment), now))

\* the lists are the records flagged missing and the others, in order
ListsFollowFlags ==
    /\ Len(jupiter_call.flags) = Len(jupiter_call.all_assignments)
    /\ Len(jupiter_call.missing) = Cardinality({ i \in DOMAIN jupiter_call.flags :
                                                    jupiter_call.flags[i] })
    /\ \A i \in DOMAIN jupiter_call.flags :
           jupiter_call.flags[i] <=> MissingByRule(jupiter_call.all_assignments[i],
                                                   jupiter_call.nows[i])
    /\ \A i \in DOMAIN jupiter_call.flags :
           IF jupiter_call.flags[i]
           THEN jupiter_call.all_assignments[i] \in Range(jupiter_call.missing)
           ELSE jupiter_call.all_assignments[i] \in Range(jupiter_call.assigned)

DriverAlwaysReleased ==
    (jupiter_call.called /\ jupiter_call.created) => jupiter_call.quit

\* C28, the part that holds: a driver that test_jupiter_login returned has
\* been quit, whatever happened after the login.
DriverReleasedAfterLogin ==
    (jupiter_call.called /\ jupiter_call.login \in {"ok", "retry_ok"}) => jupiter_call.quit

\* C27: the scrape loop ends: the function returns its list.
ScrapeLoopTerminates == <>(scrape.returned)

\* C27, the part that holds: the loop ends unless the browser session stops
\* answering.
ScrapeLoopTerminatesWhileAlive == <>(scrape.returned \/ ~ scrape.alive)

\* --------------------------------------- claims: slots below the palette size

\* C30: from no persisted map, while the map holds at most 15 courses (all
\* that were ever seen), no two of them have the same slot and every slot
\* number is in 1..15.
SlotsDistinctBelowPalette ==
    (course_colors_file.kind = "object"
     /\ Cardinality(DOMAIN course_colors_file.map) <= PaletteSize)
    => /\ \A c, e \in DOMAIN course_colors_file.map :
              c # e => course_colors_file.map[c] # course_colors_file.map[e]
       /\ \A c \in DOMAIN course_colors_file.map :
              /\ course_colors_file.map[c].prefix = "course-color-"
              /\ course_colors_file.map[c].num \in 1..PaletteSize

\* C30 witness: a second run finds a map of some courses and brings it to 15
\* courses, which have the slots 1..15 between them.
SlotsDistinctBelowPaletteWitness ==
    /\ colors_run.outcome = "written"
    /\ colors_run.pre.kind = "object"
    /\ DOMAIN colors_run.pre.map # {}
    /\ Len(colors_run.allocs) > 0
    /\ Cardinality(DOMAIN course_colors_file.map) = PaletteSize
    /\ SuffixesOf(course_colors_file.map) = 1..PaletteSize

====
